---- MODULE Spec2Model ----
(***************************************************************************)
(* Field-data transform layer of tidy3d (components/data/monitor_data.py). *)
(*                                                                         *)
(* Data objects live in a heap indexed by object identity, because several *)
(* operations return the receiver itself or write through a reference to   *)
(* it.  Every call is appended to a history that stores the receiver as it *)
(* was immediately before the call and the value that was returned.        *)
(*                                                                         *)
(* Complex arithmetic is kept exact: a complex sample is an integer        *)
(* amplitude times a monomial in the propagation factors, i.e. a map from  *)
(* factor symbols (branch, wavenumber, squared distance) to integer        *)
(* exponents.  Multiplication adds exponents and division subtracts them,  *)
(* so a factor that is divided out and multiplied in again cancels, and    *)
(* any other combination leaves a visible residue.                         *)
(***************************************************************************)
EXTENDS Integers, Sequences, FiniteSets, Bags, TLC

VARIABLES heap, calls

vars == <<heap, calls>>

(***************************************************************************)
(* Bounds of the model.                                                    *)
(***************************************************************************)
MaxCalls == 3
NumFreqs == 2

MaxObjs == MaxCalls + 1
ObjIds == 1..MaxObjs
Freqs == 1..NumFreqs
\* distances offered to renormalize_fields, and the distance of the projection
Distances == {1, 3}
InitDistances == {2}

NoObj == [kind |-> "none"]

Live == {i \in ObjIds : heap[i].kind # "none"}
FreeIds == ObjIds \ Live
NewId == CHOOSE i \in FreeIds : \A j \in FreeIds : i <= j

(***************************************************************************)
(* Exact monomial arithmetic for the propagation factors.                  *)
(***************************************************************************)
EmptyExps == [s \in {} |-> 0]

ExpOf(e, s) == IF s \in DOMAIN e THEN e[s] ELSE 0

MulExps(e1, e2) ==
    LET D == {s \in (DOMAIN e1) \cup (DOMAIN e2) : ExpOf(e1, s) + ExpOf(e2, s) # 0}
    IN  [s \in D |-> ExpOf(e1, s) + ExpOf(e2, s)]

InvExps(e) == [s \in DOMAIN e |-> 0 - e[s]]

DivExps(e1, e2) == MulExps(e1, InvExps(e2))

\* a complex sample times a phase factor
Scale(v, ph) == [amp |-> v.amp, exps |-> MulExps(v.exps, ph)]

(***************************************************************************)
(* Projected field data (AbstractFieldProjectionData and its variants).    *)
(***************************************************************************)
ProjComponents == {"Er", "Etheta", "Ephi", "Hr", "Htheta", "Hphi"}

ProjVariants == {"angle", "cartesian", "kspace"}

\* observation points: (theta, phi), in-plane (x, y) or (ux, uy), by variant
ProjPoints == {<<0, 0>>, <<1, 2>>}

Samples == ProjPoints \X Freqs

CompIdx(c) ==
    CASE c = "Er" -> 1 [] c = "Etheta" -> 2 [] c = "Ephi" -> 3
      [] c = "Hr" -> 4 [] c = "Htheta" -> 5 [] c = "Hphi" -> 6

\* index_k of the background medium at each frequency (nk_model)
Media == [Freqs -> {0, 1}]

wavenumber(medium, f) == [f |-> f, index_k |-> medium[f]]

\* self.k: one complex wavenumber per frequency
K(self) == [f \in Freqs |-> wavenumber(self.medium, f)]

\* self.nk: the imaginary part of the index per frequency
IndexK(self) == [f \in Freqs |-> self.medium[f]]

\* squared radial distance of every observation point (coords_spherical["r"])
coords_spherical(self) ==
    [p \in ProjPoints |->
        IF self.variant = "cartesian"
        THEN p[1] * p[1] + p[2] * p[2] + self.dist * self.dist
        ELSE self.dist * self.dist]

propagation_factor_3d_always(rsq, k, is_2d_simulation) ==
    IF rsq = 0 THEN EmptyExps
    ELSE [s \in {[two_d |-> FALSE, k |-> k, rsq |-> rsq]} |-> 1]

\* rsq = 0 stands for dist = None
propagation_factor(rsq, k, is_2d_simulation) ==
    IF rsq = 0 THEN EmptyExps
    ELSE IF is_2d_simulation
         THEN [s \in {[two_d |-> TRUE, k |-> k, rsq |-> rsq]} |-> 1]
         ELSE [s \in {[two_d |-> FALSE, k |-> k, rsq |-> rsq]} |-> 1]

\* self.copy(): a deep copy of the data object
Copy(self) == self

\* new_data = self.copy(); field.values *= phase; field["r"] = proj_distance
make_renormalized_data(self, phase, proj_distance) ==
    LET new_data == Copy(self)
    IN  [new_data EXCEPT
            !.fields = [c \in ProjComponents |->
                            [s \in Samples |-> Scale(new_data.fields[c][s], phase[s])]],
            !.dist = IF self.variant \in {"angle", "kspace"}
                     THEN proj_distance ELSE new_data.dist]

raises_data_error_cartesian_only(self) ==
    self.variant = "cartesian" /\ ~self.far_field_approx

\* the guard that rejects exact-kernel data
raises_data_error(self) == ~self.far_field_approx

\* FieldProjectionAngleData / FieldProjectionKSpaceData .renormalize_fields
\* result: the receiver after the call, the phases, the returned data
renormalize_radial(self, proj_distance) ==
    LET r == coords_spherical(self)
        old_phase == [s \in Samples |->
                        propagation_factor(r[s[1]], K(self)[s[2]], self.is_2d_simulation)]
        new_phase == [s \in Samples |->
                        propagation_factor(proj_distance * proj_distance, K(self)[s[2]],
                                           self.is_2d_simulation)]
        phase == [s \in Samples |-> DivExps(new_phase[s], old_phase[s])]
    IN  [self |-> self, old_phase |-> old_phase, new_phase |-> new_phase,
         ret |-> make_renormalized_data(self, phase, proj_distance)]

\* FieldProjectionCartesianData.renormalize_fields: the projection-axis
\* coordinate of the receiver's own field arrays is overwritten before the
\* new phase is computed and the copy is taken
renormalize_cartesian(self, proj_distance) ==
    LET r_old == coords_spherical(self)
        old_phase == [s \in Samples |->
                        propagation_factor(r_old[s[1]], K(self)[s[2]], self.is_2d_simulation)]
        self1 == [self EXCEPT !.dist = proj_distance]
        r_new == coords_spherical(self1)
        new_phase == [s \in Samples |->
                        propagation_factor(r_new[s[1]], K(self1)[s[2]], self1.is_2d_simulation)]
        phase == [s \in Samples |-> DivExps(new_phase[s], old_phase[s])]
    IN  [self |-> self1, old_phase |-> old_phase, new_phase |-> new_phase,
         ret |-> make_renormalized_data(self1, phase, proj_distance)]

renormalize_fields(self, proj_distance) ==
    IF self.variant = "cartesian"
    THEN renormalize_cartesian(self, proj_distance)
    ELSE renormalize_radial(self, proj_distance)

lossy_if_every_frequency(self) == \A f \in Freqs : IndexK(self)[f] # 0

\* not np.all(index_k == 0)
lossy_background(self) == ~(\A f \in Freqs : IndexK(self)[f] = 0)

\* the fields with the distance-based phase factor divided out, and the
\* branch of the constant (k**2 / (16 pi eta) or k**2 / (8 pi eta))
rcs_data(self) ==
    LET r == coords_spherical(self)
        phase == [s \in Samples |->
                    propagation_factor(r[s[1]], K(self)[s[2]], self.is_2d_simulation)]
    IN  [constant_2d |-> self.is_2d_simulation,
         Etheta |-> [s \in Samples |-> Scale(self.fields["Etheta"][s], InvExps(phase[s]))],
         Ephi |-> [s \in Samples |-> Scale(self.fields["Ephi"][s], InvExps(phase[s]))]]

(***************************************************************************)
(* Initial projected data: what a projector run hands to the caller.       *)
(***************************************************************************)
ProjData(variant, ffa, two_d, medium, dist) ==
    [kind |-> "proj",
     variant |-> variant,
     far_field_approx |-> ffa,
     is_2d_simulation |-> two_d,
     medium |-> medium,
     dist |-> dist,
     fields |-> [c \in ProjComponents |->
                    [s \in Samples |->
                        [amp |-> 100 * CompIdx(c) + 10 * s[1][1] + s[2],
                         exps |-> EmptyExps]]]]

\* the background media of the renormalization runs: lossless and absorbing
RenormMedia == {[f \in Freqs |-> 0], [f \in Freqs |-> 1]}

Init ==
    /\ \E variant \in ProjVariants, ffa \in BOOLEAN, two_d \in BOOLEAN,
          medium \in RenormMedia, dist \in InitDistances :
            heap = [i \in ObjIds |->
                        IF i = 1 THEN ProjData(variant, ffa, two_d, medium, dist)
                        ELSE NoObj]
    /\ calls = << >>

\* data.renormalize_fields(proj_distance) raising DataError
RenormalizeFieldsError(id, d) ==
    /\ Len(calls) < MaxCalls
    /\ id \in Live
    /\ heap[id].kind = "proj"
    /\ raises_data_error(heap[id])
    /\ calls' = Append(calls, [op |-> "renormalize_fields", self |-> id, arg |-> d,
                               outcome |-> "DataError", pre |-> heap[id]])
    /\ UNCHANGED heap

\* data.renormalize_fields(proj_distance) returning new data
RenormalizeFields(id, d) ==
    /\ Len(calls) < MaxCalls
    /\ id \in Live
    /\ heap[id].kind = "proj"
    /\ ~raises_data_error(heap[id])
    /\ FreeIds # {}
    /\ LET out == renormalize_fields(heap[id], d)
       IN  /\ heap' = [heap EXCEPT ![id] = out.self, ![NewId] = out.ret]
           /\ calls' = Append(calls, [op |-> "renormalize_fields", self |-> id, arg |-> d,
                                      outcome |-> "ok", pre |-> heap[id],
                                      result |-> NewId, ret |-> out.ret,
                                      old_phase |-> out.old_phase,
                                      new_phase |-> out.new_phase])

Next ==
    \/ \E id \in ObjIds, d \in Distances : RenormalizeFieldsError(id, d)
    \/ \E id \in ObjIds, d \in Distances : RenormalizeFields(id, d)

Spec == Init /\ [][Next]_vars

(***************************************************************************)
(* Radar cross section of projected data, over every background medium.    *)
(***************************************************************************)
InitRcs ==
    /\ \E variant \in ProjVariants, ffa \in BOOLEAN, two_d \in BOOLEAN,
          medium \in Media, dist \in Distances :
            heap = [i \in ObjIds |->
                        IF i = 1 THEN ProjData(variant, ffa, two_d, medium, dist)
                        ELSE NoObj]
    /\ calls = << >>

\* data.radar_cross_section raising SetupError
RadarCrossSectionError(id) ==
    /\ Len(calls) < MaxCalls
    /\ id \in Live
    /\ heap[id].kind = "proj"
    /\ lossy_background(heap[id])
    /\ calls' = Append(calls, [op |-> "radar_cross_section", self |-> id,
                               outcome |-> "SetupError", pre |-> heap[id]])
    /\ UNCHANGED heap

\* data.radar_cross_section returning a value
RadarCrossSection(id) ==
    /\ Len(calls) < MaxCalls
    /\ id \in Live
    /\ heap[id].kind = "proj"
    /\ ~lossy_background(heap[id])
    /\ calls' = Append(calls, [op |-> "radar_cross_section", self |-> id,
                               outcome |-> "ok", pre |-> heap[id],
                               ret |-> rcs_data(heap[id])])
    /\ UNCHANGED heap

NextRcs ==
    \/ \E id \in ObjIds : RadarCrossSectionError(id)
    \/ \E id \in ObjIds : RadarCrossSection(id)

SpecRcs == InitRcs /\ [][NextRcs]_vars

(***************************************************************************)
(* Field data on the simulation grid (AbstractFieldData and                *)
(* ElectromagneticFieldData).  Coordinates are integers in half cells, so  *)
(* that cell boundaries are even and cell centers are whole numbers too.   *)
(* Axes are 1, 2, 3 for x, y, z; the dimension index of the code is the    *)
(* axis minus one.  A scalar field is a record of its three coordinate     *)
(* lists and its samples, indexed by position along each axis.             *)
(***************************************************************************)
Axes == 1..3

EMComponents == {"Ex", "Ey", "Ez", "Hx", "Hy", "Hz"}

EpsComponents == {"eps_xx", "eps_yy", "eps_zz"}

\* "xyz"[dim]
DimName(a) == CASE a = 1 -> "x" [] a = 2 -> "y" [] a = 3 -> "z"

\* the integer dimension index, as the key the eigenvalue table compares with
DimIndex(a) == CASE a = 1 -> "0" [] a = 2 -> "1" [] a = 3 -> "2"

\* the axis a component is directed along
OwnAxis(c) ==
    CASE c \in {"Ex", "Hx", "eps_xx"} -> 1
      [] c \in {"Ey", "Hy", "eps_yy"} -> 2
      [] c \in {"Ez", "Hz", "eps_zz"} -> 3

IsE(c) == c \in {"Ex", "Ey", "Ez"}

IsH(c) == c \in {"Hx", "Hy", "Hz"}

\* symmetry_eigenvalues[field_name] is None for permittivity components
HasEigenvalue(c) == c \in EMComponents

\* symmetry_eigenvalues[field_name](dim): Ex = -1 if dim == 0 else +1, ...,
\* Hx = +1 if dim == 0 else -1, ...; dim is compared with the integer index
symmetry_eigenvalues(c, dim) ==
    IF IsE(c)
    THEN (IF dim = DimIndex(OwnAxis(c)) THEN 0 - 1 ELSE 1)
    ELSE (IF dim = DimIndex(OwnAxis(c)) THEN 1 ELSE 0 - 1)

Abs(n) == IF n < 0 THEN 0 - n ELSE n

DropLast(q) == SubSeq(q, 1, Len(q) - 1)

\* midpoints of consecutive boundaries
Centers(b) == [i \in 1..(Len(b) - 1) |-> (b[i] + b[i + 1]) \div 2]

\* Yee grid: E is at cell centers along its own axis and at boundaries along
\* the others, H the other way round; permittivity sits where E does
YeeCoords(bounds, c, a) ==
    IF IsH(c)
    THEN (IF a = OwnAxis(c) THEN DropLast(bounds[a]) ELSE Centers(bounds[a]))
    ELSE (IF a = OwnAxis(c) THEN Centers(bounds[a]) ELSE DropLast(bounds[a]))

\* coordinates of a component on the expanded grid, for each axis
expanded_grid_field_coords(self, field_name) ==
    IF self.type # "PermittivityData" /\ self.monitor.colocate
    THEN [a \in Axes |-> DropLast(self.grid_expanded[a])]
    ELSE [a \in Axes |-> YeeCoords(self.grid_expanded, field_name, a)]

IndexSet(coords) == (1..Len(coords[1])) \X (1..Len(coords[2])) \X (1..Len(coords[3]))

\* position of the coordinate nearest to t; of two equally near the larger
NearestIndex(cs, t) ==
    CHOOSE i \in 1..Len(cs) :
        \A j \in 1..Len(cs) :
            \/ Abs(cs[i] - t) < Abs(cs[j] - t)
            \/ (Abs(cs[i] - t) = Abs(cs[j] - t) /\ j <= i)

\* scalar_data.sel(dim = targets, method = "nearest")
SelNearest(data, a, targets) ==
    LET pick == [i \in 1..Len(targets) |-> NearestIndex(data.coords[a], targets[i])]
        coords == [data.coords EXCEPT ![a] = [i \in 1..Len(targets) |-> data.coords[a][pick[i]]]]
    IN  [coords |-> coords,
         values |-> [idx \in IndexSet(coords) |->
                        data.values[[idx EXCEPT ![a] = pick[idx[a]]]]]]

\* scalar_data.assign_coords({dim: coords})
AssignCoords(data, a, coords) == [data EXCEPT !.coords[a] = coords]

\* scalar_data.multiply_at(value, coord_name, indices)
multiply_at(data, value, a, indices) ==
    [data EXCEPT !.values = [idx \in DOMAIN data.values |->
                                IF idx[a] \in indices
                                THEN value * data.values[idx]
                                ELSE data.values[idx]]]

flip_inds_all(coords, sym_loc) == 1..Len(coords)

\* np.where(coords < sym_loc)[0]
flip_inds(coords, sym_loc) == {i \in 1..Len(coords) : coords[i] < sym_loc}

\* one pass of the loop over the symmetry dimensions in _symmetry_update_dict
symmetry_step(self, field_name, scalar_data, a) ==
    IF self.symmetry[a] = 0 THEN scalar_data
    ELSE
        LET sym_val == self.symmetry[a]
            sym_loc == self.symmetry_center[a]
            coords == expanded_grid_field_coords(self, field_name)[a]
            flips == flip_inds(coords, sym_loc)
            coords_interp == [i \in 1..Len(coords) |->
                                IF i \in flips THEN 2 * sym_loc - coords[i] ELSE coords[i]]
            selected == AssignCoords(SelNearest(scalar_data, a, coords_interp), a, coords)
        IN  IF HasEigenvalue(field_name)
            THEN multiply_at(selected,
                             sym_val * symmetry_eigenvalues(field_name, DimIndex(a)),
                             a, flips)
            ELSE selected

\* the expanded scalar field of one component
symmetry_expand_component(self, field_name) ==
    symmetry_step(self, field_name,
        symmetry_step(self, field_name,
            symmetry_step(self, field_name, self.fields[field_name], 1), 2), 3)

NoCenter == <<"None", "None", "None">>

\* _symmetry_update_dict applied to the data: every component expanded,
\* symmetry (0, 0, 0) and symmetry_center None
symmetry_update(self) ==
    [self EXCEPT
        !.fields = [c \in DOMAIN self.fields |-> symmetry_expand_component(self, c)],
        !.symmetry = <<0, 0, 0>>,
        !.symmetry_center = NoCenter]

no_symmetry_first_axis(self) == self.symmetry[1] = 0

\* all(sym == 0 for sym in self.symmetry)
no_symmetry(self) == \A a \in Axes : self.symmetry[a] = 0

(***************************************************************************)
(* Initial field data: what the solver stores for a monitor.               *)
(***************************************************************************)
\* cell boundaries of the expanded grid along an axis the monitor extends
\* over, and along an axis where the monitor has size zero (a single cell)
WideBounds(a) == CASE a = 1 -> <<0, 2, 4, 6>> [] a = 2 -> <<-4, -2, 0, 2>> [] a = 3 -> <<-2, 0, 4>>

FlatBounds(a) == CASE a = 1 -> <<0, 2>> [] a = 2 -> <<-2, 0>> [] a = 3 -> <<2, 4>>

\* center of the simulation, where the symmetry planes are
SimCenter == <<2, 0, 0>>

\* which axes the monitor has size zero along
ZeroPatterns ==
    {<<FALSE, FALSE, TRUE>>, <<FALSE, TRUE, FALSE>>, <<TRUE, FALSE, FALSE>>,
     <<FALSE, FALSE, FALSE>>, <<TRUE, TRUE, FALSE>>}

Symmetries ==
    {<<0, 0, 0>>, <<1, 0, 0>>, <<0, -1, 0>>, <<-1, 1, 0>>, <<1, -1, -1>>, <<0, 0, 1>>}

RECURSIVE SortedSeq(_)
SortedSeq(S) ==
    IF S = {} THEN << >>
    ELSE LET m == CHOOSE x \in S : \A y \in S : x <= y
         IN  <<m>> \o SortedSeq(S \ {m})

\* the coordinates the solver stores along an axis: all of them without
\* symmetry, else those of the half at and beyond the symmetry plane that
\* the expanded coordinates mirror onto; a truncated store lacks the last
StoredCoords(expanded, sym_val, sym_loc, truncated) ==
    IF sym_val = 0 THEN expanded
    ELSE LET half == {IF expanded[i] < sym_loc THEN 2 * sym_loc - expanded[i]
                      ELSE expanded[i] : i \in 1..Len(expanded)}
             full == SortedSeq(half)
         IN  IF truncated /\ Len(full) > 1 THEN DropLast(full) ELSE full

\* the stored sample of a component at a coordinate: distinct and nonzero
StoredValue(c, x, y, z) ==
    LET n == CASE c \in {"Ex", "eps_xx"} -> 1 [] c \in {"Ey", "eps_yy"} -> 2
               [] c \in {"Ez", "eps_zz"} -> 3 [] c = "Hx" -> 4 [] c = "Hy" -> 5
               [] c = "Hz" -> 6
    IN  n * 8000 + (x + 10) * 400 + (y + 10) * 20 + (z + 10)

FieldDataInit(type, comps, zero, colocate, symmetry, truncated, primal, dual) ==
    LET bounds == [a \in Axes |-> IF zero[a] THEN FlatBounds(a) ELSE WideBounds(a)]
        shell == [type |-> type, monitor |-> [colocate |-> colocate],
                  grid_expanded |-> bounds]
        stored(c) == [a \in Axes |->
                        StoredCoords(expanded_grid_field_coords(shell, c)[a],
                                     symmetry[a], SimCenter[a], truncated)]
    IN  [kind |-> "field",
         type |-> type,
         monitor |-> [size |-> [a \in Axes |-> IF zero[a] THEN 0 ELSE 2],
                      colocate |-> colocate],
         symmetry |-> symmetry,
         symmetry_center |-> SimCenter,
         grid_expanded |-> bounds,
         grid_primal_correction |-> primal,
         grid_dual_correction |-> dual,
         fields |-> [c \in comps |->
                        [coords |-> stored(c),
                         values |-> [idx \in IndexSet(stored(c)) |->
                                        StoredValue(c, stored(c)[1][idx[1]],
                                                    stored(c)[2][idx[2]],
                                                    stored(c)[3][idx[3]])]]]]

\* a planar monitor normal to z and a volume monitor
SymZeroPatterns == {<<FALSE, FALSE, TRUE>>, <<FALSE, FALSE, FALSE>>}

InitSym ==
    /\ \E type \in {"FieldData", "PermittivityData"}, zero \in SymZeroPatterns,
          colocate \in BOOLEAN, symmetry \in Symmetries, truncated \in BOOLEAN :
            heap = [i \in ObjIds |->
                      IF i = 1
                      THEN FieldDataInit(type,
                               IF type = "FieldData" THEN EMComponents ELSE EpsComponents,
                               zero, colocate, symmetry, truncated, 1, 1)
                      ELSE NoObj]
    /\ calls = << >>

\* data.symmetry_expanded on data without symmetry: returns self
SymmetryExpandedSelf(id) ==
    /\ Len(calls) < MaxCalls
    /\ id \in Live
    /\ heap[id].kind = "field"
    /\ no_symmetry(heap[id])
    /\ calls' = Append(calls, [op |-> "symmetry_expanded", self |-> id, outcome |-> "ok",
                               pre |-> heap[id], result |-> id, ret |-> heap[id]])
    /\ UNCHANGED heap

SymmetryExpandedInPlace(id) ==
    /\ Len(calls) < MaxCalls
    /\ id \in Live
    /\ heap[id].kind = "field"
    /\ ~no_symmetry(heap[id])
    /\ LET ret == symmetry_update(heap[id])
       IN  /\ heap' = [heap EXCEPT ![id] = ret]
           /\ calls' = Append(calls, [op |-> "symmetry_expanded", self |-> id,
                                      outcome |-> "ok", pre |-> heap[id],
                                      result |-> id, ret |-> ret])

\* data.symmetry_expanded on data with symmetry: self._updated(update_dict)
SymmetryExpanded(id) ==
    /\ Len(calls) < MaxCalls
    /\ id \in Live
    /\ heap[id].kind = "field"
    /\ ~no_symmetry(heap[id])
    /\ FreeIds # {}
    /\ LET ret == symmetry_update(heap[id])
       IN  /\ heap' = [heap EXCEPT ![NewId] = ret]
           /\ calls' = Append(calls, [op |-> "symmetry_expanded", self |-> id,
                                      outcome |-> "ok", pre |-> heap[id],
                                      result |-> NewId, ret |-> ret])

\* data.symmetry_expanded_copy: self.copy() or self.copy(update = update_dict)
SymmetryExpandedCopy(id) ==
    /\ Len(calls) < MaxCalls
    /\ id \in Live
    /\ heap[id].kind = "field"
    /\ FreeIds # {}
    /\ LET ret == IF no_symmetry(heap[id]) THEN Copy(heap[id])
                  ELSE symmetry_update(Copy(heap[id]))
       IN  /\ heap' = [heap EXCEPT ![NewId] = ret]
           /\ calls' = Append(calls, [op |-> "symmetry_expanded_copy", self |-> id,
                                      outcome |-> "ok", pre |-> heap[id],
                                      result |-> NewId, ret |-> ret])

NextSym ==
    \/ \E id \in ObjIds : SymmetryExpandedSelf(id)
    \/ \E id \in ObjIds : SymmetryExpanded(id)
    \/ \E id \in ObjIds : SymmetryExpandedCopy(id)

SpecSym == InitSym /\ [][NextSym]_vars

(***************************************************************************)
(* Tangential fields of a planar monitor (ElectromagneticFieldData).       *)
(***************************************************************************)
\* monitor.zero_dims: the axes along which the monitor has size zero
zero_dims(monitor) == SortedSeq({a \in Axes : monitor.size[a] = 0})

\* ["x", "y", "z"] with the zero dimension popped, as axes in order
tangential_dims(self) == SortedSeq(Axes \ {zero_dims(self.monitor)[1]})

\* fname + dim
ComponentName(fname, a) ==
    IF fname = "E"
    THEN (CASE a = 1 -> "Ex" [] a = 2 -> "Ey" [] a = 3 -> "Ez")
    ELSE (CASE a = 1 -> "Hx" [] a = 2 -> "Hy" [] a = 3 -> "Hz")

tangential_components_e_only(tan_dims) ==
    <<ComponentName("E", tan_dims[1]), ComponentName("E", tan_dims[2])>>

\* [fname + dim for fname in "EH" for dim in tan_dims]
tangential_components(tan_dims) ==
    <<ComponentName("E", tan_dims[1]), ComponentName("E", tan_dims[2]),
      ComponentName("H", tan_dims[1]), ComponentName("H", tan_dims[2])>>

\* field.squeeze(dim = normal_dim, drop = True): the normal coordinate dropped
Squeeze(data, normal) ==
    LET t == SortedSeq(Axes \ {normal})
        coords == <<data.coords[t[1]], data.coords[t[2]]>>
    IN  [coords |-> coords,
         values |-> [ij \in (1..Len(coords[1])) \X (1..Len(coords[2])) |->
                        data.values[[a \in Axes |->
                            IF a = normal THEN 1
                            ELSE IF a = t[1] THEN ij[1] ELSE ij[2]]]]]

tangential_correction_flip_every_normal(self, component, normal) ==
    LET sign == IF IsH(component) THEN 0 - 1 ELSE 1
        eig_val == symmetry_eigenvalues(component, DimName(normal))
    IN  IF eig_val < 0
        THEN sign * self.grid_dual_correction
        ELSE sign * self.grid_primal_correction

\* the factor one tangential component is multiplied by; the eigenvalue
\* table is called with the name of the normal dimension
tangential_correction(self, component, normal) ==
    LET sign == IF DimName(normal) = "y" /\ IsH(component) THEN 0 - 1 ELSE 1
        eig_val == symmetry_eigenvalues(component, DimName(normal))
    IN  IF eig_val < 0
        THEN sign * self.grid_dual_correction
        ELSE sign * self.grid_primal_correction

\* _tangential_corrected(fields): DataError unless the monitor has exactly one
\* zero dimension and the four tangential components are in fields
tangential_corrected(self, fields) ==
    IF Len(zero_dims(self.monitor)) # 1
    THEN [outcome |-> "DataError", message |-> "Data must be 2D to get tangential fields."]
    ELSE
        LET tan_dims == tangential_dims(self)
            components == tangential_components(tan_dims)
            normal == CHOOSE a \in Axes :
                        /\ self.monitor.size[a] = 0
                        /\ \A b \in Axes : self.monitor.size[b] = 0 => a <= b
            present == {components[i] : i \in 1..Len(components)}
        IN  IF \E i \in 1..Len(components) : components[i] \notin DOMAIN fields
            THEN [outcome |-> "DataError",
                  message |-> "Tangential field component missing in field data."]
            ELSE [outcome |-> "ok",
                  ret |-> [c \in present |->
                            LET sq == Squeeze(fields[c], normal)
                                correction == tangential_correction(self, c, normal)
                            IN  [sq EXCEPT !.values =
                                    [ij \in DOMAIN sq.values |-> sq.values[ij] * correction]]]]

\* data.symmetry_expanded as a value (self when there is no symmetry)
symmetry_expanded(self) == IF no_symmetry(self) THEN self ELSE symmetry_update(self)

\* _tangential_fields
tangential_fields(self) == tangential_corrected(self, symmetry_expanded(self).fields)

\* which of the six components the solver recorded
ComponentSets == {S \in SUBSET EMComponents : Cardinality(S) >= 4}

TanSymmetries == {<<0, 0, 0>>, <<1, -1, -1>>}

\* grid_primal_correction and grid_dual_correction as stored by the solver
GridCorrections == {<<1, 1>>, <<2, 3>>}

InitTan ==
    /\ \E comps \in ComponentSets, zero \in ZeroPatterns, symmetry \in TanSymmetries,
          corr \in GridCorrections :
            heap = [i \in ObjIds |->
                      IF i = 1
                      THEN FieldDataInit("FieldData", comps, zero, FALSE, symmetry, FALSE,
                                         corr[1], corr[2])
                      ELSE NoObj]
    /\ calls = << >>

\* data._tangential_fields raising DataError
TangentialFieldsError(id) ==
    /\ Len(calls) < MaxCalls
    /\ id \in Live
    /\ heap[id].kind = "field"
    /\ tangential_fields(heap[id]).outcome = "DataError"
    /\ calls' = Append(calls, [op |-> "_tangential_fields", self |-> id,
                               outcome |-> "DataError",
                               message |-> tangential_fields(heap[id]).message,
                               pre |-> heap[id]])
    /\ UNCHANGED heap

\* data._tangential_fields returning the four corrected components
TangentialFields(id) ==
    /\ Len(calls) < MaxCalls
    /\ id \in Live
    /\ heap[id].kind = "field"
    /\ tangential_fields(heap[id]).outcome = "ok"
    /\ calls' = Append(calls, [op |-> "_tangential_fields", self |-> id,
                               outcome |-> "ok", pre |-> heap[id],
                               ret |-> tangential_fields(heap[id]).ret])
    /\ UNCHANGED heap

NextTan ==
    \/ \E id \in ObjIds : TangentialFieldsError(id)
    \/ \E id \in ObjIds : TangentialFields(id)

SpecTan == InitTan /\ [][NextTan]_vars

(***************************************************************************)
(* Properties of renormalize_fields and radar_cross_section.               *)
(***************************************************************************)
CallIdx == 1..Len(calls)

RenormCalls == {i \in CallIdx : calls[i].op = "renormalize_fields"}

OkRenormCalls == {i \in RenormCalls : calls[i].outcome = "ok"}

RcsCalls == {i \in CallIdx : calls[i].op = "radar_cross_section"}

\* C1: renormalize_fields on data of an exact-kernel monitor (far_field_approx
\* = False) raises DataError and returns nothing, whatever the variant and the
\* distance; no data object comes into being through a failed call
C1_ExactKernelRenormalizeFails ==
    /\ \A i \in RenormCalls :
          ~calls[i].pre.far_field_approx =>
              /\ calls[i].outcome = "DataError"
              /\ "ret" \notin DOMAIN calls[i]
    /\ Cardinality(Live) = 1 + Cardinality(OkRenormCalls)

C1_Witness ==
    \E i \in RenormCalls :
        /\ calls[i].outcome = "DataError"
        /\ calls[i].pre.variant = "kspace"
        /\ calls[i].arg = 3

\* C2: renormalize_fields is pure: once it has returned, the receiver has the
\* field values and the coordinates (the distance coordinate included) that it
\* had before the call
C2_RenormalizeLeavesReceiver ==
    Len(calls) > 0 =>
        LET c == calls[Len(calls)]
        IN  c.op = "renormalize_fields" =>
                /\ heap[c.self].fields = c.pre.fields
                /\ heap[c.self].dist = c.pre.dist

\* C3: two calls renormalize_fields(d) with the same d on the same far-field
\* data object return equal field values and coordinates
C3_RepeatedRenormalizeAgrees ==
    \A i, j \in OkRenormCalls :
        (calls[i].self = calls[j].self /\ calls[i].arg = calls[j].arg) =>
            /\ calls[i].ret.fields = calls[j].ret.fields
            /\ calls[i].ret.dist = calls[j].ret.dist

\* C4: renormalize_fields(d2) of the result of renormalize_fields(d1) equals
\* renormalize_fields(d2) of the original data, in field values and in the
\* distance coordinate
C4_RenormalizeComposes ==
    \A i, j, l \in OkRenormCalls :
        (/\ i < j
         /\ calls[j].self = calls[i].result
         /\ calls[l].self = calls[i].self
         /\ calls[l].arg = calls[j].arg) =>
            /\ calls[j].ret.fields = calls[l].ret.fields
            /\ calls[j].ret.dist = calls[l].ret.dist

\* C5: the factor divided out and the factor multiplied in both come from the
\* branch selected by the data's is_2d_simulation flag (line source when set,
\* 3D otherwise), every returned sample is the input sample times new / old,
\* and the returned data carries the input's flag and background medium
C5_SameBranchBothFactors ==
    \A i \in OkRenormCalls :
        LET c == calls[i]
        IN  /\ \A s \in Samples :
                  /\ \A sym \in (DOMAIN c.old_phase[s]) \cup (DOMAIN c.new_phase[s]) :
                        sym.two_d = c.pre.is_2d_simulation
                  /\ Cardinality(DOMAIN c.old_phase[s]) = 1
                  /\ Cardinality(DOMAIN c.new_phase[s]) = 1
                  /\ \A comp \in ProjComponents :
                        c.ret.fields[comp][s] =
                            Scale(c.pre.fields[comp][s],
                                  DivExps(c.new_phase[s], c.old_phase[s]))
            /\ c.ret.is_2d_simulation = c.pre.is_2d_simulation
            /\ c.ret.medium = c.pre.medium

C5_Witness ==
    \E i \in OkRenormCalls :
        /\ calls[i].pre.is_2d_simulation
        /\ calls[i].pre.variant = "kspace"
        /\ calls[i].pre.medium \in RenormMedia
        /\ calls[i].ret.dist # calls[i].pre.dist

\* C6: radar_cross_section raises SetupError exactly when the imaginary part of
\* the background index is nonzero at some frequency of the data, and returns a
\* value exactly when it is zero at all of them
C6_RcsFailsIffLossy ==
    \A i \in RcsCalls :
        LET c == calls[i]
            lossy == \E f \in Freqs : c.pre.medium[f] # 0
        IN  /\ lossy => (c.outcome = "SetupError" /\ "ret" \notin DOMAIN c)
            /\ ~lossy => (c.outcome = "ok" /\ "ret" \in DOMAIN c)

C6_Witness ==
    \E i \in RcsCalls :
        /\ calls[i].outcome = "SetupError"
        /\ \E f \in Freqs : calls[i].pre.medium[f] = 0
        /\ \E f \in Freqs : calls[i].pre.medium[f] # 0

(***************************************************************************)
(* Properties of symmetry expansion and of the tangential fields.          *)
(***************************************************************************)
ExpandCalls == {i \in CallIdx : calls[i].op \in {"symmetry_expanded", "symmetry_expanded_copy"}}

\* C7: symmetry expansion of data with symmetry (0, 0, 0) returns the same
\* data (symmetry_expanded the very same object); every expanded result has
\* symmetry (0, 0, 0), so expanding an expanded result again changes nothing
C7_ExpansionOfExpandedIsIdentity ==
    /\ \A i \in ExpandCalls :
          /\ calls[i].ret.symmetry = <<0, 0, 0>>
          /\ calls[i].pre.symmetry = <<0, 0, 0>> =>
                /\ calls[i].ret = calls[i].pre
                /\ calls[i].op = "symmetry_expanded" => calls[i].result = calls[i].self
    /\ \A i, j \in ExpandCalls :
          (i < j /\ calls[j].self = calls[i].result) => calls[j].ret = calls[i].ret

C7_Witness ==
    \E i, j \in ExpandCalls :
        /\ i < j
        /\ calls[i].pre.symmetry = <<1, -1, -1>>
        /\ calls[i].ret.fields # calls[i].pre.fields
        /\ calls[j].self = calls[i].result
        /\ calls[j].op = "symmetry_expanded"

\* the coordinate a sample of the expanded field is read from along axis a
MirroredCoord(c, sym_val, sym_loc) ==
    IF sym_val # 0 /\ c < sym_loc THEN 2 * sym_loc - c ELSE c

\* the sign factor axis a contributes at coordinate c
AxisFactor(comp, a, c, sym_val, sym_loc) ==
    IF sym_val # 0 /\ c < sym_loc /\ comp \in EMComponents
    THEN sym_val * symmetry_eigenvalues(comp, DimIndex(a))
    ELSE 1

\* the positions along axis a of the stored field a sample of the expanded
\* field may be read from: the same position without symmetry, else those of
\* the stored coordinates nearest to the mirrored coordinate
SourcePositions(old, a, pos, c, sym_val, sym_loc) ==
    IF sym_val = 0 THEN {pos}
    ELSE LET m == MirroredCoord(c, sym_val, sym_loc)
         IN  {j \in 1..Len(old.coords[a]) :
                \A j2 \in 1..Len(old.coords[a]) :
                    Abs(old.coords[a][j] - m) <= Abs(old.coords[a][j2] - m)}

\* C8: along every axis with nonzero symmetry eigenvalue s and center x0 the
\* expanded field is sampled on the expanded grid; its value at a coordinate
\* c < x0 is s times the component eigenvalue times the stored value nearest
\* to 2 * x0 - c, at c >= x0 the stored value nearest to c; the factors of
\* several symmetric axes multiply; components without an eigenvalue rule
\* are mirrored without a factor (stated of the latest call; the history is
\* append-only, so every call is the latest one in some state)
C8_ExpandedValues ==
    (Len(calls) > 0 /\ Len(calls) \in ExpandCalls) =>
        LET pre == calls[Len(calls)].pre
            ret == calls[Len(calls)].ret
        IN  \A comp \in DOMAIN pre.fields :
              LET old == pre.fields[comp]
                  new == ret.fields[comp]
                  grid == expanded_grid_field_coords(pre, comp)
                  sym == pre.symmetry
                  loc == pre.symmetry_center
              IN  /\ \A a \in Axes :
                        new.coords[a] = IF sym[a] # 0 THEN grid[a] ELSE old.coords[a]
                  /\ \A idx \in DOMAIN new.values :
                        \E s1 \in SourcePositions(old, 1, idx[1], new.coords[1][idx[1]],
                                                  sym[1], loc[1]),
                           s2 \in SourcePositions(old, 2, idx[2], new.coords[2][idx[2]],
                                                  sym[2], loc[2]),
                           s3 \in SourcePositions(old, 3, idx[3], new.coords[3][idx[3]],
                                                  sym[3], loc[3]) :
                            new.values[idx] =
                                  AxisFactor(comp, 1, new.coords[1][idx[1]], sym[1], loc[1])
                                * AxisFactor(comp, 2, new.coords[2][idx[2]], sym[2], loc[2])
                                * AxisFactor(comp, 3, new.coords[3][idx[3]], sym[3], loc[3])
                                * old.values[<<s1, s2, s3>>]

C8_Witness ==
    \E i \in ExpandCalls :
        /\ calls[i].pre.symmetry = <<1, -1, -1>>
        /\ calls[i].pre.type = "FieldData"
        /\ \E idx \in DOMAIN calls[i].ret.fields["Hz"].values :
              /\ calls[i].ret.fields["Hz"].coords[1][idx[1]] < SimCenter[1]
              /\ calls[i].ret.fields["Hz"].coords[2][idx[2]] < SimCenter[2]
              /\ calls[i].ret.fields["Hz"].values[idx] < 0

\* C9: symmetry_expanded and symmetry_expanded_copy on data with nonzero
\* symmetry leave the receiver as it was (symmetry, center, values and
\* coordinates) and return a new data object with symmetry (0, 0, 0)
C9_ExpansionLeavesReceiver ==
    \A i \in ExpandCalls :
        calls[i].pre.symmetry # <<0, 0, 0>> =>
            /\ heap[calls[i].self] = calls[i].pre
            /\ calls[i].result # calls[i].self
            /\ heap[calls[i].result] = calls[i].ret
            /\ calls[i].ret.symmetry = <<0, 0, 0>>
            /\ calls[i].ret.symmetry_center = NoCenter

C9_Witness ==
    \E i \in ExpandCalls :
        /\ calls[i].op = "symmetry_expanded"
        /\ calls[i].pre.symmetry = <<-1, 1, 0>>
        /\ heap[calls[i].self].symmetry = <<-1, 1, 0>>
        /\ calls[i].ret.fields # calls[i].pre.fields

TanCalls == {i \in CallIdx : calls[i].op = "_tangential_fields"}

\* the four components in the plane of a monitor normal to the given axis
InPlaneComponents(normal) ==
    CASE normal = 1 -> {"Ey", "Ez", "Hy", "Hz"}
      [] normal = 2 -> {"Ex", "Ez", "Hx", "Hz"}
      [] normal = 3 -> {"Ex", "Ey", "Hx", "Hy"}

\* C10: assembling the tangential fields raises DataError when the monitor
\* does not have exactly one zero-size dimension or when one of the four
\* in-plane E and H components is absent, and succeeds, returning exactly
\* those four, otherwise, whether or not the normal components are present
C10_TangentialNeedsFourComponents ==
    \A i \in TanCalls :
        LET c == calls[i]
            flat == {a \in Axes : c.pre.monitor.size[a] = 0}
            planar == Cardinality(flat) = 1
            complete == \A a \in flat : InPlaneComponents(a) \subseteq DOMAIN c.pre.fields
        IN  /\ (planar /\ complete) =>
                  /\ c.outcome = "ok"
                  /\ \A a \in flat : DOMAIN c.ret = InPlaneComponents(a)
            /\ ~(planar /\ complete) => (c.outcome = "DataError" /\ "ret" \notin DOMAIN c)

C10_Witness ==
    \E i \in TanCalls :
        /\ calls[i].outcome = "ok"
        /\ calls[i].pre.monitor.size[2] = 0
        /\ DOMAIN calls[i].pre.fields = {"Ex", "Ez", "Hx", "Hz"}

(***************************************************************************)
(* Properties of the sign and grid corrections of tangential fields.       *)
(***************************************************************************)
OkTanCalls == {i \in TanCalls : calls[i].outcome = "ok"}

Sgn(n) == IF n < 0 THEN 0 - 1 ELSE IF n > 0 THEN 1 ELSE 0

\* the axis a planar monitor is normal to
NormalAxis(self) == CHOOSE a \in Axes : self.monitor.size[a] = 0

\* the expanded, squeezed, uncorrected samples of a component
RawTangential(self, c) == Squeeze(symmetry_expanded(self).fields[c], NormalAxis(self))

\* C11: in the assembled tangential fields a component has the opposite sign
\* of its expanded stored sample exactly when it is magnetic and the monitor
\* is normal to y; electric components keep their sign, and with normal x or
\* z every component keeps its sign (the grid factors are positive)
C11_SignFlipOnlyMagneticNormalY ==
    \A i \in OkTanCalls :
        LET c == calls[i]
            normal == NormalAxis(c.pre)
        IN  \A comp \in DOMAIN c.ret :
                LET raw == RawTangential(c.pre, comp)
                IN  /\ DOMAIN c.ret[comp].values = DOMAIN raw.values
                    /\ \A ij \in DOMAIN raw.values :
                          /\ raw.values[ij] # 0
                          /\ Sgn(c.ret[comp].values[ij]) =
                                (IF normal = 2 /\ comp \in {"Hx", "Hz"}
                                 THEN 0 - Sgn(raw.values[ij])
                                 ELSE Sgn(raw.values[ij]))

C11_Witness ==
    \E i \in OkTanCalls :
        /\ NormalAxis(calls[i].pre) = 2
        /\ calls[i].pre.symmetry # <<0, 0, 0>>
        /\ \E ij \in DOMAIN calls[i].ret["Hx"].values :
              calls[i].ret["Hx"].values[ij] =
                  0 - (calls[i].pre.grid_dual_correction
                         * RawTangential(calls[i].pre, "Hx").values[ij])

(***************************************************************************)
(* grid_corrected_copy (ElectromagneticFieldData).                         *)
(***************************************************************************)
\* field * factor
ScaleField(data, factor) ==
    [data EXCEPT !.values = [idx \in DOMAIN data.values |-> data.values[idx] * factor]]

\* data.symmetry_expanded_copy as a value
symmetry_expanded_copy(self) ==
    IF no_symmetry(self) THEN Copy(self) ELSE symmetry_update(Copy(self))

grid_corrected_copy_keeps_factors(self) ==
    LET field_data == symmetry_expanded_copy(self)
    IN  IF Len(zero_dims(self.monitor)) # 1 THEN field_data
        ELSE LET normal_dim == DimName(zero_dims(self.monitor)[1])
             IN  [field_data EXCEPT
                    !.fields = [field_name \in DOMAIN field_data.fields |->
                        IF symmetry_eigenvalues(field_name, normal_dim) < 0
                        THEN ScaleField(field_data.fields[field_name],
                                        self.grid_dual_correction)
                        ELSE ScaleField(field_data.fields[field_name],
                                        self.grid_primal_correction)]]

\* grid_corrected_copy: the expanded copy, and for a planar monitor every
\* component times the dual or primal factor and both factors set to 1.0;
\* the eigenvalue table is called with the name of the normal dimension
grid_corrected_copy(self) ==
    LET field_data == symmetry_expanded_copy(self)
    IN  IF Len(zero_dims(self.monitor)) # 1 THEN field_data
        ELSE LET normal_dim == DimName(zero_dims(self.monitor)[1])
             IN  [field_data EXCEPT
                    !.grid_primal_correction = 1,
                    !.grid_dual_correction = 1,
                    !.fields = [field_name \in DOMAIN field_data.fields |->
                        IF symmetry_eigenvalues(field_name, normal_dim) < 0
                        THEN ScaleField(field_data.fields[field_name],
                                        self.grid_dual_correction)
                        ELSE ScaleField(field_data.fields[field_name],
                                        self.grid_primal_correction)]]

\* all six components, or the four in the plane normal to z
GridComponentSets == {EMComponents, {"Ex", "Ey", "Hx", "Hy"}}

InitGrid ==
    /\ \E comps \in GridComponentSets, zero \in ZeroPatterns, symmetry \in TanSymmetries,
          corr \in GridCorrections :
            heap = [i \in ObjIds |->
                      IF i = 1
                      THEN FieldDataInit("FieldData", comps, zero, FALSE, symmetry, FALSE,
                                         corr[1], corr[2])
                      ELSE NoObj]
    /\ calls = << >>

\* data.grid_corrected_copy
GridCorrectedCopy(id) ==
    /\ Len(calls) < MaxCalls
    /\ id \in Live
    /\ heap[id].kind = "field"
    /\ FreeIds # {}
    /\ LET ret == grid_corrected_copy(heap[id])
       IN  /\ heap' = [heap EXCEPT ![NewId] = ret]
           /\ calls' = Append(calls, [op |-> "grid_corrected_copy", self |-> id,
                                      outcome |-> "ok", pre |-> heap[id],
                                      result |-> NewId, ret |-> ret])

NextGrid ==
    \/ \E id \in ObjIds : TangentialFieldsError(id)
    \/ \E id \in ObjIds : TangentialFields(id)
    \/ \E id \in ObjIds : GridCorrectedCopy(id)

SpecGrid == InitGrid /\ [][NextGrid]_vars

GridCopyCalls == {i \in CallIdx : calls[i].op = "grid_corrected_copy"}

IsPlanar(self) == Cardinality({a \in Axes : self.monitor.size[a] = 0}) = 1

\* C12: every assembled tangential component is its expanded stored sample
\* times exactly one grid factor (the dual one if the component's symmetry
\* eigenvalue along the normal axis is negative, else the primal one) and
\* the y-normal sign; no call changes the dataset it is called on; and the
\* corrected copy of planar data has both factors 1 and yields the same
\* tangential fields as the data it was made from
C12_OneGridCorrection ==
    /\ \A i \in OkTanCalls :
          LET c == calls[i]
              normal == NormalAxis(c.pre)
          IN  \A comp \in DOMAIN c.ret :
                LET raw == RawTangential(c.pre, comp)
                    factor == IF symmetry_eigenvalues(comp, DimIndex(normal)) < 0
                              THEN c.pre.grid_dual_correction
                              ELSE c.pre.grid_primal_correction
                    flip == IF normal = 2 /\ IsH(comp) THEN 0 - 1 ELSE 1
                IN  c.ret[comp] = ScaleField(raw, flip * factor)
    /\ \A i \in CallIdx : heap[calls[i].self] = calls[i].pre
    /\ \A i \in GridCopyCalls :
          IsPlanar(calls[i].pre) =>
              /\ calls[i].ret.grid_primal_correction = 1
              /\ calls[i].ret.grid_dual_correction = 1
              /\ tangential_fields(calls[i].ret) = tangential_fields(calls[i].pre)

C12_Witness ==
    \E i \in GridCopyCalls, j \in OkTanCalls, k \in OkTanCalls :
        /\ IsPlanar(calls[i].pre)
        /\ calls[i].pre.grid_primal_correction = 2
        /\ calls[i].pre.grid_dual_correction = 3
        /\ calls[i].pre.symmetry # <<0, 0, 0>>
        /\ calls[j].self = calls[i].result
        /\ calls[k].self = calls[i].self
        /\ calls[j].ret = calls[k].ret
        /\ calls[i].ret.fields # symmetry_expanded(calls[i].pre).fields

(***************************************************************************)
(* Arrays are computed once and then read: With binds a value, Materialize *)
(* turns a function expression into the table of its values.               *)
(***************************************************************************)
\* Op applied to the value of v
With(v, Op(_)) == CHOOSE r \in {Op(x) : x \in {v}} : TRUE

\* the function f as the table of its values
Materialize(f) == f @@ << >>

\* scalar data with its samples computed
Computed(data) ==
    With(data, LAMBDA d : [coords |-> d.coords, values |-> Materialize(d.values)])

\* a dictionary of scalar data with every sample computed
ComputedFields(fields) ==
    With(fields, LAMBDA fs : Materialize([c \in DOMAIN fs |-> Computed(fs[c])]))

(***************************************************************************)
(* Differential area of a planar monitor (_diff_area).                     *)
(***************************************************************************)
\* colocation_boundaries: the last boundary dropped, and for monitors that
\* do not colocate also the first, unless a single one is left
colocation_boundaries(self) ==
    [a \in Axes |->
        LET cbs == DropLast(self.grid_expanded[a])
        IN  IF ~self.monitor.colocate /\ Len(cbs) > 1 THEN Tail(cbs) ELSE cbs]

\* np.any(np.array(self.monitor.interval_space) > 1)
down_sampled(monitor) == \E a \in Axes : monitor.interval_space[a] > 1

\* _plane_grid_boundaries, for a planar monitor that is not down-sampled
plane_grid_boundaries(self) ==
    LET t == tangential_dims(self)
    IN  <<colocation_boundaries(self)[t[1]], colocation_boundaries(self)[t[2]]>>

\* _plane_grid_centers
plane_grid_centers(self) ==
    [k \in 1..2 |-> Centers(plane_grid_boundaries(self)[k])]

diff_area_coords_untruncated(self, k) ==
    LET bounds == plane_grid_boundaries(self)[k]
    IN  <<bounds[1]>> \o plane_grid_centers(self)[k] \o <<bounds[Len(bounds)]>>

\* the coordinates the cell sizes are taken between along in-plane dimension
\* k: the centers with the first and last boundary appended, those below the
\* monitor's lower bound moved onto it, then those above the upper bound
diff_area_coords(self, k) ==
    With(<<plane_grid_boundaries(self)[k], plane_grid_centers(self)[k],
           tangential_dims(self)[k]>>, LAMBDA p :
        LET bounds == p[1]
            a == p[3]
            coords == <<bounds[1]>> \o p[2] \o <<bounds[Len(bounds)]>>
            lower == [i \in 1..Len(coords) |->
                        IF coords[i] < self.monitor.bounds[1][a]
                        THEN self.monitor.bounds[1][a] ELSE coords[i]]
        IN  [i \in 1..Len(coords) |->
                IF lower[i] > self.monitor.bounds[2][a]
                THEN self.monitor.bounds[2][a] ELSE lower[i]])

\* sizes_dim0, sizes_dim1
diff_area_sizes(self, k) ==
    With(diff_area_coords(self, k), LAMBDA coords :
        IF Len(plane_grid_boundaries(self)[k]) > 1
        THEN [i \in 1..(Len(coords) - 1) |-> coords[i + 1] - coords[i]]
        ELSE <<1>>)

\* _diff_area: np.outer(sizes_dim0, sizes_dim1) over the tangential dimensions
diff_area(self) ==
    IF down_sampled(self.monitor)
    THEN [outcome |-> "Tidy3dNotImplementedError"]
    ELSE IF Len(zero_dims(self.monitor)) # 1
    THEN [outcome |-> "DataError"]
    ELSE With(<<diff_area_sizes(self, 1), diff_area_sizes(self, 2)>>, LAMBDA s :
            [outcome |-> "ok",
             ret |-> Materialize([ij \in (1..Len(s[1])) \X (1..Len(s[2])) |->
                                    s[1][ij[1]] * s[2][ij[2]]])])

\* where a monitor lies along an axis, relative to the grid boundaries
ExtentKinds == {"cover", "cut", "inside", "outside"}

Extent(kind, b) ==
    CASE kind = "cover" -> <<b[1] - 1, b[Len(b)] + 1>>
      [] kind = "cut" -> <<b[1] + 1, b[1] + 3>>
      [] kind = "inside" -> <<b[1] + 2, b[Len(b)] - 2>>
      [] kind = "outside" -> <<b[Len(b)] + 1, b[Len(b)] + 3>>
      [] kind = "zero" -> <<b[1] + 1, b[1] + 1>>

\* a monitor of the given extent kinds on a grid that is a single cell along
\* the axes of flat
AreaDataInit(comps, flat, kinds, colocate, interval_space, symmetry, primal, dual) ==
    LET d == FieldDataInit("FieldData", comps, flat, colocate, symmetry, FALSE, primal, dual)
        ext == [a \in Axes |-> Extent(kinds[a], d.grid_expanded[a])]
    IN  [d EXCEPT !.monitor =
            [size |-> [a \in Axes |-> ext[a][2] - ext[a][1]],
             bounds |-> <<[a \in Axes |-> ext[a][1]], [a \in Axes |-> ext[a][2]]>>,
             colocate |-> colocate,
             interval_space |-> interval_space]]

\* the grid is one cell thick along the normal axis, and possibly along one
\* more axis (a two-dimensional simulation)
FlatPatterns(normal) ==
    {[a \in Axes |-> a = normal]} \cup
    {[a \in Axes |-> a = normal \/ a = b] : b \in {(normal % 3) + 1}}

InitArea ==
    /\ \E normal \in Axes, k1 \in ExtentKinds, k2 \in ExtentKinds, colocate \in BOOLEAN,
          volume \in BOOLEAN, space \in {<<1, 1, 1>>, <<1, 2, 1>>} :
        \E flat \in FlatPatterns(normal) :
            /\ (volume \/ space # <<1, 1, 1>>) => (k1 = "cover" /\ k2 = "cut")
            /\ flat[(normal % 3) + 1] => k1 = "cover"
            /\ heap = [i \in ObjIds |->
                      IF i = 1
                      THEN AreaDataInit({}, flat,
                               [a \in Axes |->
                                   IF a = normal THEN (IF volume THEN "cover" ELSE "zero")
                                   ELSE IF a = (normal % 3) + 1 THEN k1 ELSE k2],
                               colocate, space, <<0, 0, 0>>, 1, 1)
                      ELSE NoObj]
    /\ calls = << >>

\* data._diff_area raising
DiffAreaError(id) ==
    /\ Len(calls) < MaxCalls
    /\ id \in Live
    /\ diff_area(heap[id]).outcome # "ok"
    /\ calls' = Append(calls, [op |-> "_diff_area", self |-> id,
                               outcome |-> diff_area(heap[id]).outcome, pre |-> heap[id]])
    /\ UNCHANGED heap

\* data._diff_area returning the cell areas
DiffArea(id) ==
    /\ Len(calls) < MaxCalls
    /\ id \in Live
    /\ diff_area(heap[id]).outcome = "ok"
    /\ calls' = Append(calls, [op |-> "_diff_area", self |-> id, outcome |-> "ok",
                               pre |-> heap[id], ret |-> diff_area(heap[id]).ret])
    /\ UNCHANGED heap

NextArea ==
    \/ \E id \in ObjIds : DiffAreaError(id)
    \/ \E id \in ObjIds : DiffArea(id)

SpecArea == InitArea /\ [][NextArea]_vars

(***************************************************************************)
(* Properties of the differential area.                                    *)
(***************************************************************************)
AreaCalls == {i \in CallIdx : calls[i].op = "_diff_area" /\ calls[i].outcome = "ok"}

Min2(x, y) == IF x < y THEN x ELSE y

Max2(x, y) == IF x < y THEN y ELSE x

\* length of the part of [lo1, hi1] covered by [lo2, hi2]
OverlapLen(lo1, hi1, lo2, hi2) == Max2(0, Min2(hi1, hi2) - Max2(lo1, lo2))

RECURSIVE SumSeq(_)
SumSeq(q) == IF q = << >> THEN 0 ELSE Head(q) + SumSeq(Tail(q))

\* the cells along in-plane dimension k: cell i lies between entries i and
\* i + 1 of the first boundary, the centers, and the last boundary
CellEdges(self, k) ==
    LET b == plane_grid_boundaries(self)[k]
    IN  <<b[1]>> \o Centers(b) \o <<b[Len(b)]>>

\* the part of each cell that the monitor covers
CoveredWidths(self, k) ==
    LET a == tangential_dims(self)[k]
        e == CellEdges(self, k)
    IN  [i \in 1..(Len(e) - 1) |->
            OverlapLen(e[i], e[i + 1], self.monitor.bounds[1][a], self.monitor.bounds[2][a])]

\* C13: along an in-plane axis with more than one grid boundary the width of
\* each cell is the length of its part inside the monitor bounds (so never
\* negative, 0 for a cell wholly outside, the covered part for a cut cell),
\* the widths sum to the overlap of the monitor extent with the grid span,
\* along an axis with a single boundary the width is 1, and the area of
\* cell (i, j) is the product of the two widths
C13_DiffAreaTruncated ==
    \A n \in AreaCalls :
        LET self == calls[n].pre
            W == [k \in 1..2 |->
                    IF Len(plane_grid_boundaries(self)[k]) = 1 THEN <<1>>
                    ELSE CoveredWidths(self, k)]
        IN  /\ \A k \in 1..2 :
                  LET a == tangential_dims(self)[k]
                      b == plane_grid_boundaries(self)[k]
                  IN  /\ diff_area_sizes(self, k) = W[k]
                      /\ \A i \in 1..Len(W[k]) : W[k][i] >= 0
                      /\ Len(b) > 1 =>
                            SumSeq(diff_area_sizes(self, k)) =
                                OverlapLen(b[1], b[Len(b)], self.monitor.bounds[1][a],
                                           self.monitor.bounds[2][a])
            /\ DOMAIN calls[n].ret = (1..Len(W[1])) \X (1..Len(W[2]))
            /\ \A ij \in DOMAIN calls[n].ret :
                  calls[n].ret[ij] = W[1][ij[1]] * W[2][ij[2]]

C13_Witness ==
    \E n \in AreaCalls :
        LET self == calls[n].pre
            e == CellEdges(self, 1)
        IN  /\ Len(plane_grid_boundaries(self)[1]) > 1
            /\ \E i \in 1..(Len(e) - 1) :
                  /\ 0 < CoveredWidths(self, 1)[i]
                  /\ CoveredWidths(self, 1)[i] < e[i + 1] - e[i]
            /\ \E i \in 1..(Len(e) - 1) :
                  e[i] < e[i + 1] /\ CoveredWidths(self, 1)[i] = 0
            /\ \E ij \in DOMAIN calls[n].ret : calls[n].ret[ij] > 0

(***************************************************************************)
(* Poynting vector and flux of planar monitor data.  A complex field is    *)
(* held as its real part (fields) and its imaginary part (fields_im); the  *)
(* expansion, interpolation, squeeze and correction are linear with real   *)
(* coefficients, so they act on the two parts separately.                  *)
(***************************************************************************)
\* the dataset of the imaginary parts
ImPart(self) == [self EXCEPT !.fields = self.fields_im]

\* position of the last coordinate not above t
IndexBelow(cs, t) ==
    CHOOSE i \in 1..Len(cs) : cs[i] <= t /\ (i = Len(cs) \/ t < cs[i + 1])

\* val.interp(dim = targets): linear interpolation along one dimension, at
\* targets within the range of the coordinates
interp(data, a, targets) ==
    With(<<data, targets>>, LAMBDA p :
        LET cs == p[1].coords[a]
            coords == [p[1].coords EXCEPT ![a] = p[2]]
        IN  [coords |-> coords,
             values |-> Materialize([idx \in IndexSet(coords) |->
                LET t == p[2][idx[a]]
                    i == IndexBelow(cs, t)
                IN  IF cs[i] = t THEN p[1].values[[idx EXCEPT ![a] = i]]
                    ELSE (p[1].values[[idx EXCEPT ![a] = i]] * (cs[i + 1] - t)
                            + p[1].values[[idx EXCEPT ![a] = i + 1]] * (t - cs[i]))
                         \div (cs[i + 1] - cs[i])])])

\* interpolation to the in-plane boundaries along in-plane dimension k,
\* skipped where there is a single boundary
interp_plane(self, data, k) ==
    With(plane_grid_boundaries(self)[k], LAMBDA bounds :
        IF Len(bounds) > 1 THEN interp(data, tangential_dims(self)[k], bounds) ELSE data)

\* _colocated_fields of a planar monitor
colocated_fields(self) ==
    With(ComputedFields(symmetry_expanded(self).fields), LAMBDA field_components :
        IF self.monitor.colocate THEN field_components
        ELSE Materialize([key \in DOMAIN field_components |->
                interp_plane(self, interp_plane(self, field_components[key], 1), 2)]))

\* _colocated_tangential_fields
colocated_tangential_fields(self) ==
    With(colocated_fields(self), LAMBDA fields :
        With(tangential_corrected(self, fields), LAMBDA r :
            IF r.outcome = "ok" THEN [r EXCEPT !.ret = ComputedFields(r.ret)] ELSE r))

\* what flux raises before anything is summed: _diff_area comes first, then
\* the tangential fields
flux_outcome(self) ==
    With(diff_area(self).outcome, LAMBDA area_outcome :
        IF area_outcome # "ok" THEN area_outcome
        ELSE colocated_tangential_fields(self).outcome)

poynting_sum_of_terms(self) ==
    With(<<colocated_tangential_fields(self).ret,
           colocated_tangential_fields(ImPart(self)).ret,
           tangential_dims(self)>>, LAMBDA p :
        LET re == p[1]
            im == p[2]
            e1 == ComponentName("E", p[3][1])
            e2 == ComponentName("E", p[3][2])
            h1 == ComponentName("H", p[3][1])
            h2 == ComponentName("H", p[3][2])
        IN  Materialize([ij \in DOMAIN re[e1].values |->
                IF self.type = "FieldTimeData"
                THEN re[e1].values[ij] * re[h2].values[ij]
                        + re[e2].values[ij] * re[h1].values[ij]
                ELSE ((re[e1].values[ij] * re[h2].values[ij]
                         + im[e1].values[ij] * im[h2].values[ij])
                        + (re[e2].values[ij] * re[h1].values[ij]
                             + im[e2].values[ij] * im[h1].values[ij])) \div 2]))

\* poynting: 0.5 * real(e1 * conj(h2) - e2 * conj(h1)) for frequency-domain
\* data, real(e1) * real(h2) - real(e2) * real(h1) for FieldTimeData
poynting(self) ==
    With(<<colocated_tangential_fields(self).ret,
           colocated_tangential_fields(ImPart(self)).ret,
           tangential_dims(self)>>, LAMBDA p :
        LET re == p[1]
            im == p[2]
            e1 == ComponentName("E", p[3][1])
            e2 == ComponentName("E", p[3][2])
            h1 == ComponentName("H", p[3][1])
            h2 == ComponentName("H", p[3][2])
        IN  Materialize([ij \in DOMAIN re[e1].values |->
                IF self.type = "FieldTimeData"
                THEN re[e1].values[ij] * re[h2].values[ij]
                        - re[e2].values[ij] * re[h1].values[ij]
                ELSE ((re[e1].values[ij] * re[h2].values[ij]
                         + im[e1].values[ij] * im[h2].values[ij])
                        - (re[e2].values[ij] * re[h1].values[ij]
                             + im[e2].values[ij] * im[h1].values[ij])) \div 2]))

\* the sum of f over S: positive terms counted as a bag, and the negative
SumOver(f, S) ==
    With(f, LAMBDA g :
        BagCardinality([x \in {y \in S : g[y] > 0} |-> g[x]])
          - BagCardinality([x \in {y \in S : g[y] < 0} |-> 0 - g[x]]))

\* flux: (poynting * d_area).sum(dim = d_area.dims)
flux(self) ==
    With(<<diff_area(self).ret, poynting(self)>>, LAMBDA p :
        SumOver([ij \in DOMAIN p[2] |-> p[2][ij] * p[1][ij]], DOMAIN p[2]))

\* grids for flux and overlaps: uneven cells along x; FlatBounds where the
\* grid is a single cell
PlaneBounds(a) ==
    CASE a = 1 -> <<0, 2, 6, 8>> [] a = 2 -> <<-4, -2, 0, 2>> [] a = 3 -> <<-2, 0, 2, 4>>

PlaneCenter == <<4, -1, 1>>

\* the stored sample of one part of a component at a coordinate: a small
\* multiple of 24, so that the interpolation weights divide it
PlaneValue(c, part, x, y, z, seed) ==
    LET n == CASE c = "Ex" -> 1 [] c = "Ey" -> 2 [] c = "Ez" -> 3 [] c = "Hx" -> 4
               [] c = "Hy" -> 5 [] c = "Hz" -> 6
        h == (n * n + 3 * part + x + 2 * y + 3 * z + seed * (n + 2) + 60) % 7
    IN  24 * (h - 2)

\* data of a monitor on the plane grid: flat names the axes along which the
\* grid is a single cell, kinds where the monitor lies along each axis
PlaneDataInit(type, comps, flat, kinds, colocate, symmetry, corr, seed) ==
    LET bounds == [a \in Axes |-> IF flat[a] THEN FlatBounds(a) ELSE PlaneBounds(a)]
        ext == [a \in Axes |-> Extent(kinds[a], bounds[a])]
        monitor == [size |-> [a \in Axes |-> ext[a][2] - ext[a][1]],
                    bounds |-> <<[a \in Axes |-> ext[a][1]], [a \in Axes |-> ext[a][2]]>>,
                    colocate |-> colocate,
                    interval_space |-> <<1, 1, 1>>]
        shell == [type |-> type, monitor |-> monitor, grid_expanded |-> bounds]
        stored(c) == [a \in Axes |->
                        StoredCoords(expanded_grid_field_coords(shell, c)[a],
                                     symmetry[a], PlaneCenter[a], FALSE)]
        part(p) == [c \in comps |->
                      [coords |-> stored(c),
                       values |-> [idx \in IndexSet(stored(c)) |->
                                      PlaneValue(c, p, stored(c)[1][idx[1]],
                                                 stored(c)[2][idx[2]],
                                                 stored(c)[3][idx[3]], seed)]]]
    IN  [kind |-> "field",
         type |-> type,
         monitor |-> monitor,
         symmetry |-> symmetry,
         symmetry_center |-> PlaneCenter,
         grid_expanded |-> bounds,
         grid_primal_correction |-> corr[1],
         grid_dual_correction |-> corr[2],
         fields |-> part(0),
         fields_im |-> part(1)]

FluxSymmetries == {<<0, 0, 0>>, <<1, -1, 1>>}

FluxComponentSets == {EMComponents, EMComponents \ {"Hx"}}

InitFlux ==
    /\ \E type \in {"FieldData", "FieldTimeData"}, comps \in FluxComponentSets,
          normal \in Axes, kind \in {"cover", "cut"}, colocate \in BOOLEAN,
          symmetry \in FluxSymmetries, corr \in GridCorrections, volume \in BOOLEAN :
            /\ volume => (kind = "cover" /\ comps = EMComponents /\ symmetry = <<0, 0, 0>>)
            /\ heap = [i \in ObjIds |->
                      IF i = 1
                      THEN PlaneDataInit(type, comps,
                               [a \in Axes |-> a = normal /\ ~volume],
                               [a \in Axes |->
                                   IF a = normal THEN (IF volume THEN "cover" ELSE "zero")
                                   ELSE IF a = (normal % 3) + 1 THEN kind ELSE "cover"],
                               colocate, symmetry, corr, 0)
                      ELSE NoObj]
    /\ calls = << >>

\* data.flux raising
FluxError(id) ==
    /\ Len(calls) < MaxCalls
    /\ id \in Live
    /\ flux_outcome(heap[id]) # "ok"
    /\ calls' = Append(calls, [op |-> "flux", self |-> id,
                               outcome |-> flux_outcome(heap[id]), pre |-> heap[id]])
    /\ UNCHANGED heap

\* data.flux returning the integrated Poynting vector
Flux(id) ==
    /\ Len(calls) < MaxCalls
    /\ id \in Live
    /\ flux_outcome(heap[id]) = "ok"
    /\ calls' = Append(calls, [op |-> "flux", self |-> id, outcome |-> "ok",
                               pre |-> heap[id], ret |-> flux(heap[id])])
    /\ UNCHANGED heap

NextFlux ==
    \/ \E id \in ObjIds : FluxError(id)
    \/ \E id \in ObjIds : Flux(id)

SpecFlux == InitFlux /\ [][NextFlux]_vars

(***************************************************************************)
(* Properties of the flux.                                                 *)
(***************************************************************************)
FluxCalls == {i \in CallIdx : calls[i].op = "flux" /\ calls[i].outcome = "ok"}

\* the symmetry-expanded, colocated, grid-corrected samples of one tangential
\* component over the in-plane cells: part 0 is the real part, part 1 the
\* imaginary part
TangentialSample(self, part, comp) ==
    With(Computed(symmetry_expanded(IF part = 0 THEN self ELSE ImPart(self)).fields[comp]),
         LAMBDA expanded :
        With(IF self.monitor.colocate THEN expanded
             ELSE interp_plane(self, interp_plane(self, expanded, 1), 2), LAMBDA colocated :
            LET normal == NormalAxis(self)
                factor == IF IsH(comp)
                          THEN (IF normal = 2 THEN 0 - self.grid_dual_correction
                                ELSE self.grid_dual_correction)
                          ELSE self.grid_primal_correction
            IN  With(Computed(Squeeze(colocated, normal)), LAMBDA sq :
                    Materialize([ij \in DOMAIN sq.values |-> sq.values[ij] * factor]))))

\* the samples of E1, E2, H1, H2, by part, field and in-plane dimension
TangentialSamples(self) ==
    Materialize([pfk \in (0..1) \X {"E", "H"} \X (1..2) |->
        TangentialSample(self, pfk[1], ComponentName(pfk[2], tangential_dims(self)[pfk[3]]))])

\* twice the frequency-domain Poynting value, Re(E1 conj(H2) - E2 conj(H1))
TwicePoyntingFreq(T, ij) ==
    (T[<<0, "E", 1>>][ij] * T[<<0, "H", 2>>][ij] + T[<<1, "E", 1>>][ij] * T[<<1, "H", 2>>][ij])
      - (T[<<0, "E", 2>>][ij] * T[<<0, "H", 1>>][ij]
           + T[<<1, "E", 2>>][ij] * T[<<1, "H", 1>>][ij])

\* the time-domain Poynting value, Re(E1) Re(H2) - Re(E2) Re(H1)
PoyntingTime(T, ij) ==
    T[<<0, "E", 1>>][ij] * T[<<0, "H", 2>>][ij] - T[<<0, "E", 2>>][ij] * T[<<0, "H", 1>>][ij]

\* C14: the flux is the sum over the in-plane cells of the Poynting value
\* times the cell's differential area, the Poynting value being
\* 1/2 Re(E1 conj(H2) - E2 conj(H1)) for frequency-domain data and
\* Re(E1) Re(H2) - Re(E2) Re(H1) for time-domain data, on the
\* symmetry-expanded, colocated, grid-corrected tangential fields
C14_FluxIsPoyntingTimesArea ==
    \A n \in FluxCalls :
        With(<<diff_area(calls[n].pre).ret, TangentialSamples(calls[n].pre)>>, LAMBDA p :
            IF calls[n].pre.type = "FieldTimeData"
            THEN calls[n].ret =
                    SumOver([ij \in DOMAIN p[1] |-> PoyntingTime(p[2], ij) * p[1][ij]],
                            DOMAIN p[1])
            ELSE 2 * calls[n].ret =
                    SumOver([ij \in DOMAIN p[1] |-> TwicePoyntingFreq(p[2], ij) * p[1][ij]],
                            DOMAIN p[1]))

C14_Witness ==
    \E n \in FluxCalls :
        /\ calls[n].pre.type = "FieldData"
        /\ NormalAxis(calls[n].pre) = 2
        /\ ~calls[n].pre.monitor.colocate
        /\ calls[n].pre.symmetry # <<0, 0, 0>>
        /\ calls[n].pre.grid_dual_correction = 3
        /\ calls[n].ret # 0
        /\ With(<<diff_area(calls[n].pre).ret, TangentialSamples(calls[n].pre)>>, LAMBDA p :
              \E ij \in DOMAIN p[1] : p[1][ij] = 0 /\ TwicePoyntingFreq(p[2], ij) # 0)

(***************************************************************************)
(* Modal overlaps (dot, outer_dot).  Data over frequencies and mode        *)
(* indices holds one slice of field components per (frequency position,    *)
(* mode position); the in-plane operations act on each slice alike.        *)
(* A complex number is the pair of its real and imaginary part.            *)
(***************************************************************************)
CMul(a, b) == <<a[1] * b[1] - a[2] * b[2], a[1] * b[2] + a[2] * b[1]>>

CSub(a, b) == <<a[1] - b[1], a[2] - b[2]>>

CConj(a) == <<a[1], 0 - a[2]>>

\* a grid correction factor at one (frequency, mode): the float itself, or
\* the entry of the array over (f, mode_index) that the product with the
\* fields broadcasts there
grid_correction_at(self, name, fi, mi) ==
    IF "grid_correction_type" \in DOMAIN self /\ self.grid_correction_type = "FreqModeDataArray"
    THEN self[name][<<fi, mi>>]
    ELSE self[name]

\* the field components of one (frequency, mode) slice as field data of
\* the same monitor
Slice(self, fi, mi) ==
    [kind |-> "field",
     type |-> self.type,
     monitor |-> self.monitor,
     symmetry |-> self.symmetry,
     symmetry_center |-> self.symmetry_center,
     grid_expanded |-> self.grid_expanded,
     grid_primal_correction |-> grid_correction_at(self, "grid_primal_correction", fi, mi),
     grid_dual_correction |-> grid_correction_at(self, "grid_dual_correction", fi, mi),
     fields |-> self.slices[<<fi, mi>>].fields,
     fields_im |-> self.slices[<<fi, mi>>].fields_im]

\* the complex samples of tangential fields given by their parts
ComplexFields(re, im) ==
    Materialize([c \in DOMAIN re |->
        Materialize([ij \in DOMAIN re[c].values |->
            <<re[c].values[ij], im[c].values[ij]>>])])

\* {key: field.conj()}
ConjFields(fields) ==
    Materialize([c \in DOMAIN fields |->
        Materialize([ij \in DOMAIN fields[c] |-> CConj(fields[c][ij])])])

\* field.interp(kwargs = {bounds_error: False, fill_value: 0.0}, dim = cents)
\* on squeezed data, along in-plane dimension k
interp_fill(data, k, cents) ==
    With(<<data, cents>>, LAMBDA p :
        LET cs == p[1].coords[k]
            coords == [p[1].coords EXCEPT ![k] = p[2]]
        IN  [coords |-> coords,
             values |-> Materialize([ij \in (1..Len(coords[1])) \X (1..Len(coords[2])) |->
                LET t == p[2][ij[k]]
                IN  IF t < cs[1] \/ t > cs[Len(cs)] THEN 0
                    ELSE LET i == IndexBelow(cs, t)
                         IN  IF cs[i] = t THEN p[1].values[[ij EXCEPT ![k] = i]]
                             ELSE (p[1].values[[ij EXCEPT ![k] = i]] * (cs[i + 1] - t)
                                     + p[1].values[[ij EXCEPT ![k] = i + 1]] * (t - cs[i]))
                                  \div (cs[i + 1] - cs[i])])])

\* _interpolated_tangential_fields(coords), for planar data with all four
\* tangential components
interpolated_tangential_fields(self, coords) ==
    With(<<ComputedFields(tangential_fields(self).ret), coords>>, LAMBDA p :
        Materialize([component \in DOMAIN p[1] |->
            With(IF Len(p[2][1]) > 0 THEN interp_fill(p[1][component], 1, p[2][1])
                 ELSE p[1][component], LAMBDA along1 :
                IF Len(p[2][2]) > 0 THEN interp_fill(along1, 2, p[2][2]) ELSE along1)]))

\* four times the summand of one pair of slices at one cell, without the
\* area: (e_self x h_other) - (h_self x e_other)
cross_products(dims, fields_self, fields_other, ij) ==
    LET e_1 == ComponentName("E", dims[1])
        e_2 == ComponentName("E", dims[2])
        h_1 == ComponentName("H", dims[1])
        h_2 == ComponentName("H", dims[2])
        e_self_x_h_other == CSub(CMul(fields_self[e_1][ij], fields_other[h_2][ij]),
                                 CMul(fields_self[e_2][ij], fields_other[h_1][ij]))
        h_self_x_e_other == CSub(CMul(fields_self[h_1][ij], fields_other[e_2][ij]),
                                 CMul(fields_self[h_2][ij], fields_other[e_1][ij]))
    IN  CSub(e_self_x_h_other, h_self_x_e_other)

\* 0.25 * (integrand * d_area).sum(): the overlap of two slices
overlap_sum(self, fields_self, fields_other) ==
    With(<<diff_area(self).ret, tangential_dims(self), fields_self, fields_other>>, LAMBDA p :
        With(Materialize([ij \in DOMAIN p[1] |-> cross_products(p[2], p[3], p[4], ij)]),
             LAMBDA integrand :
            <<SumOver([ij \in DOMAIN p[1] |-> integrand[ij][1] * p[1][ij]], DOMAIN p[1]) \div 4,
              SumOver([ij \in DOMAIN p[1] |-> integrand[ij][2] * p[1][ij]], DOMAIN p[1])
                \div 4>>))

\* the complex colocated tangential fields of a slice, conjugated if asked
fields_of_self(slice, conjugate) ==
    With(<<colocated_tangential_fields(slice).ret,
           colocated_tangential_fields(ImPart(slice)).ret>>, LAMBDA p :
        With(ComplexFields(p[1], p[2]), LAMBDA fields :
            IF conjugate THEN ConjFields(fields) ELSE fields))

\* the complex tangential fields of a slice of the other data interpolated
\* to the in-plane boundaries of self
fields_of_other(self_slice, other_slice) ==
    With(<<interpolated_tangential_fields(other_slice, plane_grid_boundaries(self_slice)),
           interpolated_tangential_fields(ImPart(other_slice),
                                          plane_grid_boundaries(self_slice))>>, LAMBDA p :
        ComplexFields(p[1], p[2]))

\* np.array(sorted(set(f_0).intersection(f_1)))
common_freqs(f_0, f_1) ==
    SortedSeq({f_0[i] : i \in DOMAIN f_0} \cap {f_1[i] : i \in DOMAIN f_1})

\* list(values).index(freq)
IndexOf(values, freq) ==
    CHOOSE i \in DOMAIN values :
        values[i] = freq /\ \A j \in DOMAIN values : values[j] = freq => i <= j

\* positions along the mode dimension: those of mode_index, or the single
\* position of expand_dims(mode_index_k = [0])
ModePositions(self) == IF self.has_mode_index THEN DOMAIN self.mode_index ELSE {1}

\* what one pass of the loops of _outer_fn_summation computes: the overlaps
\* of mode position outer_1 of the first data with mode position outer_2 of
\* the second, at every common frequency
outer_unit(self, field_data, conjugate, outer_1, outer_2) ==
    With(common_freqs(self.f, field_data.f), LAMBDA f :
        [k \in DOMAIN f |->
            With(<<Slice(self, IndexOf(self.f, f[k]), outer_1),
                   Slice(field_data, IndexOf(field_data.f, f[k]), outer_2)>>, LAMBDA s :
                overlap_sum(s[1], fields_of_self(s[1], conjugate),
                            fields_of_other(s[1], s[2])))])

\* _outer_fn_summation: data[..., outer_1, outer_2] = data_curr for every pair
outer_fn_summation(self, field_data, conjugate) ==
    With(common_freqs(self.f, field_data.f), LAMBDA f :
        Materialize([idx \in (DOMAIN f) \X ModePositions(self) \X ModePositions(field_data) |->
            outer_unit(self, field_data, conjugate, idx[2], idx[3])[idx[1]]]))

outer_dot_outcome_late_key_error(self, field_data) ==
    IF Len(zero_dims(self.monitor)) # 1 \/ Len(zero_dims(field_data.monitor)) # 1
    THEN [outcome |-> "DataError", message |-> "Data must be 2D to get tangential dimensions."]
    ELSE IF \E k \in 1..2 : tangential_dims(self)[k] # tangential_dims(field_data)[k]
    THEN [outcome |-> "KeyError", message |-> "fields_other"]
    ELSE [outcome |-> "ok", message |-> ""]

\* what outer_dot raises, if anything: the tangential dimensions of both
\* data and their comparison; then the fields and the area, which do not
\* raise for planar data with all tangential components
outer_dot_outcome(self, field_data) ==
    IF Len(zero_dims(self.monitor)) # 1 \/ Len(zero_dims(field_data.monitor)) # 1
    THEN [outcome |-> "DataError", message |-> "Data must be 2D to get tangential dimensions."]
    ELSE IF ~(\A k \in 1..2 : tangential_dims(self)[k] = tangential_dims(field_data)[k])
    THEN [outcome |-> "DataError",
          message |-> "Tangential dimensions must match between the two monitors."]
    ELSE [outcome |-> "ok", message |-> ""]

outer_dot_keep_mode_dims(self, field_data, conjugate) ==
    [dims |-> <<"f", "mode_index_0", "mode_index_1">>,
     f |-> common_freqs(self.f, field_data.f),
     mode_index_0 |-> IF self.has_mode_index THEN self.mode_index ELSE <<0>>,
     mode_index_1 |-> IF field_data.has_mode_index THEN field_data.mode_index ELSE <<0>>,
     values |-> outer_fn_summation(self, field_data, conjugate)]

\* outer_dot: the overlaps over (f, mode_index_0, mode_index_1), a mode
\* dimension removed with isel(mode_index_k = 0, drop = True) if the input
\* did not have it
outer_dot(self, field_data, conjugate) ==
    LET f == common_freqs(self.f, field_data.f)
        keys_0 == IF self.has_mode_index
                  THEN {<<m>> : m \in ModePositions(self)} ELSE {<< >>}
        keys_1 == IF field_data.has_mode_index
                  THEN {<<m>> : m \in ModePositions(field_data)} ELSE {<< >>}
        keys == {<<k>> \o a \o b : k \in DOMAIN f, a \in keys_0, b \in keys_1}
        full(key) == <<key[1],
                       IF self.has_mode_index THEN key[2] ELSE 1,
                       IF field_data.has_mode_index THEN key[Len(key)] ELSE 1>>
    IN  [dims |-> <<"f">> \o (IF self.has_mode_index THEN <<"mode_index_0">> ELSE << >>)
                        \o (IF field_data.has_mode_index THEN <<"mode_index_1">> ELSE << >>),
         f |-> f,
         mode_index_0 |-> IF self.has_mode_index THEN self.mode_index ELSE "dropped",
         mode_index_1 |-> IF field_data.has_mode_index THEN field_data.mode_index
                          ELSE "dropped",
         values |-> With(outer_fn_summation(self, field_data, conjugate), LAMBDA result :
                        Materialize([key \in keys |-> result[full(key)]]))]

\* data over frequencies f and, for mode data, mode indices: one slice of
\* plane data per position; the samples differ with frequency and mode
ModalDataInit(type, comps, normal, volume, colocate, symmetry, corr, f, num_modes, direction, seed) ==
    LET slice(fi, mi) ==
            PlaneDataInit(type, comps, [a \in Axes |-> a = normal /\ ~volume],
                          [a \in Axes |-> IF a = normal /\ ~volume THEN "zero" ELSE "cover"],
                          colocate, symmetry, corr, seed + 2 * f[fi] + 3 * mi)
        first == slice(1, 1)
        has_mode_index == type \in {"ModeData", "ModeSolverData"}
    IN  [kind |-> "modal",
         type |-> type,
         monitor |-> [size |-> first.monitor.size,
                      bounds |-> first.monitor.bounds,
                      colocate |-> colocate,
                      interval_space |-> first.monitor.interval_space,
                      store_fields_direction |-> direction],
         symmetry |-> symmetry,
         symmetry_center |-> first.symmetry_center,
         grid_expanded |-> first.grid_expanded,
         grid_primal_correction |-> corr[1],
         grid_dual_correction |-> corr[2],
         f |-> f,
         has_mode_index |-> has_mode_index,
         mode_index |-> IF has_mode_index THEN [m \in 1..num_modes |-> m - 1] ELSE << >>,
         slices |-> [fm \in (DOMAIN f) \X (1..(IF has_mode_index THEN num_modes ELSE 1)) |->
                        [fields |-> slice(fm[1], fm[2]).fields,
                         fields_im |-> slice(fm[1], fm[2]).fields_im]]]

\* how often one history calls an overlap
MaxOverlapCalls == 1

\* the frequencies of the two data: in and out of order, partly shared,
\* not shared
FreqPairs == {<<(<<1, 2>>), (<<2, 1>>)>>, <<(<<2, 1>>), (<<1>>)>>, <<(<<1>>), (<<2>>)>>}

\* normal axis and colocation of the first data, normal axis of the second
\* and whether it is a volume
OverlapGeometries ==
    {<<3, FALSE, 3, FALSE>>, <<3, TRUE, 3, FALSE>>, <<2, FALSE, 2, FALSE>>,
     <<2, FALSE, 3, FALSE>>, <<3, FALSE, 3, TRUE>>}

InitDot ==
    /\ \E type_0 \in {"FieldData", "ModeData"}, type_1 \in {"FieldData", "ModeData"},
          fs \in FreqPairs, g \in OverlapGeometries :
            heap = [i \in ObjIds |->
                      IF i = 1
                      THEN ModalDataInit(type_0, InPlaneComponents(g[1]), g[1], FALSE, g[2],
                                         <<0, 0, 0>>, <<2, 3>>, fs[1], 2, "+", 0)
                      ELSE IF i = 2
                      THEN ModalDataInit(type_1, InPlaneComponents(g[3]), g[3], g[4], FALSE,
                                         <<0, 0, 0>>, <<1, 1>>, fs[2], 2, "+", 1)
                      ELSE NoObj]
    /\ calls = << >>

\* data.outer_dot(field_data, conjugate) raising
OuterDotError(id, other, conjugate) ==
    /\ Len(calls) < MaxOverlapCalls
    /\ id \in Live /\ other \in Live /\ id # other
    /\ heap[id].kind = "modal" /\ heap[other].kind = "modal"
    /\ outer_dot_outcome(heap[id], heap[other]).outcome # "ok"
    /\ calls' = Append(calls, [op |-> "outer_dot", self |-> id, other |-> other,
                               conjugate |-> conjugate,
                               pre |-> heap[id], pre_other |-> heap[other],
                               outcome |-> outer_dot_outcome(heap[id], heap[other]).outcome,
                               message |-> outer_dot_outcome(heap[id], heap[other]).message])
    /\ UNCHANGED heap

\* data.outer_dot(field_data, conjugate) returning the overlaps
OuterDot(id, other, conjugate) ==
    /\ Len(calls) < MaxOverlapCalls
    /\ id \in Live /\ other \in Live /\ id # other
    /\ heap[id].kind = "modal" /\ heap[other].kind = "modal"
    /\ outer_dot_outcome(heap[id], heap[other]).outcome = "ok"
    /\ calls' = Append(calls, [op |-> "outer_dot", self |-> id, other |-> other,
                               conjugate |-> conjugate, outcome |-> "ok",
                               pre |-> heap[id], pre_other |-> heap[other],
                               ret |-> outer_dot(heap[id], heap[other], conjugate)])
    /\ UNCHANGED heap

NextDot ==
    \/ \E id \in ObjIds, other \in ObjIds, conjugate \in BOOLEAN :
          OuterDotError(id, other, conjugate)
    \/ \E id \in ObjIds, other \in ObjIds, conjugate \in BOOLEAN :
          OuterDot(id, other, conjugate)

SpecDot == InitDot /\ [][NextDot]_vars

(***************************************************************************)
(* Properties of outer_dot.                                                *)
(***************************************************************************)
OuterDotCalls == {i \in CallIdx : calls[i].op = "outer_dot" /\ calls[i].outcome = "ok"}

OuterDotErrors == {i \in CallIdx : calls[i].op = "outer_dot" /\ calls[i].outcome # "ok"}

\* the overlap of the slice of a at frequency freq and mode position m_0
\* with the slice of b at the same frequency and mode position m_1
SliceOverlap(a, b, conjugate, freq, m_0, m_1) ==
    With(<<Slice(a, IndexOf(a.f, freq), m_0), Slice(b, IndexOf(b.f, freq), m_1)>>, LAMBDA s :
        overlap_sum(s[1], fields_of_self(s[1], conjugate), fields_of_other(s[1], s[2])))

\* C15: the result of outer_dot holds the frequencies that both data have,
\* each once and in increasing order; its values are indexed by the position
\* of such a frequency, then by a mode position of this data if it has a
\* mode_index, then by a mode position of the other data if that has a
\* mode_index; there is one value for every such index, the overlap of the
\* two slices at that frequency and those mode positions; and the
\* mode_index_0 (mode_index_1) dimension and coordinate are present exactly
\* when this (the other) data has a mode_index
C15_OuterDotIndexSpace ==
    \A n \in OuterDotCalls :
        LET a == calls[n].pre
            b == calls[n].pre_other
            r == calls[n].ret
            n_0 == IF a.has_mode_index THEN Len(a.mode_index) ELSE 1
            n_1 == IF b.has_mode_index THEN Len(b.mode_index) ELSE 1
        IN  /\ {r.f[k] : k \in DOMAIN r.f} =
                   {a.f[i] : i \in DOMAIN a.f} \cap {b.f[i] : i \in DOMAIN b.f}
            /\ \A k \in DOMAIN r.f : k > 1 => r.f[k - 1] < r.f[k]
            /\ ("mode_index_0" \in {r.dims[i] : i \in DOMAIN r.dims}) <=> a.has_mode_index
            /\ ("mode_index_1" \in {r.dims[i] : i \in DOMAIN r.dims}) <=> b.has_mode_index
            /\ r.dims[1] = "f"
            /\ Len(r.dims) = 1 + (IF a.has_mode_index THEN 1 ELSE 0)
                                + (IF b.has_mode_index THEN 1 ELSE 0)
            /\ a.has_mode_index => r.mode_index_0 = a.mode_index
            /\ b.has_mode_index => r.mode_index_1 = b.mode_index
            /\ ~a.has_mode_index => r.mode_index_0 = "dropped"
            /\ ~b.has_mode_index => r.mode_index_1 = "dropped"
            /\ Cardinality(DOMAIN r.values) = Len(r.f) * n_0 * n_1
            /\ \A k \in DOMAIN r.f, m_0 \in 1..n_0, m_1 \in 1..n_1 :
                  LET key == <<k>> \o (IF a.has_mode_index THEN <<m_0>> ELSE << >>)
                                  \o (IF b.has_mode_index THEN <<m_1>> ELSE << >>)
                  IN  /\ key \in DOMAIN r.values
                      /\ r.values[key] =
                            SliceOverlap(a, b, calls[n].conjugate, r.f[k], m_0, m_1)

C15_Witness ==
    \E n \in OuterDotCalls :
        LET a == calls[n].pre
            b == calls[n].pre_other
            r == calls[n].ret
        IN  /\ a.has_mode_index /\ ~b.has_mode_index
            /\ a.f = <<2, 1>> /\ b.f = <<1>>
            /\ r.f = <<1>>
            /\ r.dims = <<"f", "mode_index_0">>
            /\ DOMAIN r.values = {<<1, 1>>, <<1, 2>>}
            /\ r.values[<<1, 1>>] # r.values[<<1, 2>>]
            /\ r.values[<<1, 1>>] # <<0, 0>>

\* the two in-plane axes of a planar monitor, in order
InPlaneAxes(self) == SortedSeq(Axes \ {NormalAxis(self)})

\* C16: outer_dot between data of two planar monitors whose in-plane axes
\* differ in some position (monitors with different normal axes) raises
\* DataError("Tangential dimensions must match between the two monitors.")
\* and returns no overlaps; it returns only when both lists of in-plane axes
\* are equal element by element
C16_TangentialDimsMustMatch ==
    \A n \in CallIdx :
        calls[n].op = "outer_dot" =>
            LET a == calls[n].pre
                b == calls[n].pre_other
            IN  /\ (/\ IsPlanar(a) /\ IsPlanar(b)
                     /\ \E k \in 1..2 : InPlaneAxes(a)[k] # InPlaneAxes(b)[k])
                        => /\ calls[n].outcome = "DataError"
                           /\ calls[n].message =
                                 "Tangential dimensions must match between the two monitors."
                           /\ "ret" \notin DOMAIN calls[n]
                /\ calls[n].outcome = "ok"
                        => /\ IsPlanar(a) /\ IsPlanar(b)
                           /\ \A k \in 1..2 : InPlaneAxes(a)[k] = InPlaneAxes(b)[k]
                           /\ "ret" \in DOMAIN calls[n]
                /\ (IsPlanar(a) /\ IsPlanar(b) /\ NormalAxis(a) # NormalAxis(b))
                        => calls[n].outcome # "ok"

C16_Witness ==
    \E n \in OuterDotErrors :
        /\ IsPlanar(calls[n].pre) /\ IsPlanar(calls[n].pre_other)
        /\ NormalAxis(calls[n].pre) = 2 /\ NormalAxis(calls[n].pre_other) = 3
        /\ calls[n].message = "Tangential dimensions must match between the two monitors."

(***************************************************************************)
(* Diffraction orders (DiffractionData).  A direction cosine is a fraction *)
(* <<numerator, denominator>> with a positive denominator; a polar angle   *)
(* is not a number (nan) or is known by the square of its cosine, a        *)
(* fraction; Bloch vectors are counted in halves.                          *)
(***************************************************************************)
\* C_0 / np.real(np.sqrt(epsilon)), in units of size * f
WaveSpeed == 3

\* the frequencies of the monitor
DiffFreqs == <<1, 2>>

\* shifted_orders: bloch_vec + np.atleast_1d(orders), in halves
shifted_orders(orders, bloch_vec) == [i \in DOMAIN orders |-> bloch_vec + 2 * orders[i]]

reciprocal_coords_without_bloch(orders, size, bloch_vec, f) ==
    IF size = 0 THEN [ik \in {<<1, 1>>} |-> <<0, 1>>]
    ELSE [ik \in (DOMAIN orders) \X (DOMAIN f) |->
            <<2 * orders[ik[1]] * WaveSpeed, 2 * size * f[ik[2]]>>]

\* reciprocal_coords: np.atleast_2d(0) for size 0, else
\* bloch_array[:, None] / size * C_0 / f / np.real(np.sqrt(epsilon))
reciprocal_coords(orders, size, bloch_vec, f) ==
    IF size = 0 THEN [ik \in {<<1, 1>>} |-> <<0, 1>>]
    ELSE [ik \in (DOMAIN orders) \X (DOMAIN f) |->
            <<shifted_orders(orders, bloch_vec)[ik[1]] * WaveSpeed, 2 * size * f[ik[2]]>>]

\* ux, uy
ux(self) == reciprocal_coords(self.orders_x, self.sim_size[1], self.bloch_vecs[1], self.f)

uy(self) == reciprocal_coords(self.orders_y, self.sim_size[2], self.bloch_vecs[2], self.f)

\* the entry of a two-dimensional array at (i, k) after broadcasting
Broadcast(u, i, k) ==
    u[<<IF <<i, k>> \in DOMAIN u THEN i ELSE 1, IF <<i, k>> \in DOMAIN u THEN k ELSE 1>>]

\* kspace_2_sph(ux, uy, axis = 2): theta = arccos(sqrt(1 - ux^2 - uy^2)),
\* not a number outside the unit disk; phi is the angle of (ux, uy)
kspace_2_sph(u_x, u_y) ==
    LET n == (u_x[2] * u_x[2]) * (u_y[2] * u_y[2])
                - (u_x[1] * u_x[1]) * (u_y[2] * u_y[2])
                - (u_y[1] * u_y[1]) * (u_x[2] * u_x[2])
    IN  [theta |-> IF n < 0 THEN [nan |-> TRUE, cos2 |-> <<0, 0>>]
                   ELSE [nan |-> FALSE,
                         cos2 |-> <<n, (u_x[2] * u_x[2]) * (u_y[2] * u_y[2])>>],
         phi |-> [atan2 |-> <<u_y, u_x>>]]

\* compute_angles: thetas, phis over ux[:, None, :] and uy[None, :, :]
compute_angles(reciprocal_vectors) ==
    With(reciprocal_vectors, LAMBDA u :
        LET nx == Cardinality({ik[1] : ik \in DOMAIN u[1]})
            ny == Cardinality({ik[1] : ik \in DOMAIN u[2]})
            nf == Max2(Cardinality({ik[2] : ik \in DOMAIN u[1]}),
                       Cardinality({ik[2] : ik \in DOMAIN u[2]}))
            sph == Materialize([idx \in (1..nx) \X (1..ny) \X (1..nf) |->
                        kspace_2_sph(Broadcast(u[1], idx[1], idx[3]),
                                     Broadcast(u[2], idx[2], idx[3]))])
        IN  <<Materialize([idx \in DOMAIN sph |-> sph[idx].theta]),
              Materialize([idx \in DOMAIN sph |-> sph[idx].phi])>>)

\* self.coords: the coordinates of Etheta
diffraction_coords(self) == [orders_x |-> self.orders_x, orders_y |-> self.orders_y, f |-> self.f]

\* angles: (theta_data, phi_data) on the coordinates of the fields
angles(self) ==
    With(compute_angles(<<ux(self), uy(self)>>), LAMBDA a :
        <<[coords |-> diffraction_coords(self), values |-> a[1]],
          [coords |-> diffraction_coords(self), values |-> a[2]]>>)

\* np.cos(np.nan_to_num(theta)) squared: not-a-number becomes angle 0
cos2_nan_to_num(theta) == IF theta.nan THEN <<1, 1>> ELSE theta.cos2

\* an amplitude field * norm, norm = 1 / sqrt(2 eta) / sqrt(cos_theta) with
\* cos_theta set to inf where it is <= 0: kept as the number scaled with
\* cos_theta = sqrt(over) still to be divided out, and 0 where norm is 0
amplitude(field, cos2) ==
    IF cos2[1] <= 0 THEN [scaled |-> <<0, 0>>, over |-> <<1, 1>>]
    ELSE [scaled |-> field, over |-> cos2]

\* amps: stacked along polarization, "s" from Ephi and "p" from Etheta
amps(self) ==
    With(angles(self)[1].values, LAMBDA thetas :
        [coords |-> [orders_x |-> self.orders_x, orders_y |-> self.orders_y, f |-> self.f,
                     polarization |-> <<"s", "p">>],
         values |-> Materialize([ip \in (DOMAIN thetas) \X {"s", "p"} |->
                        amplitude(IF ip[2] = "s" THEN self.Ephi[ip[1]] ELSE self.Etheta[ip[1]],
                                  cos2_nan_to_num(thetas[ip[1]]))])])

\* abs(z) ** 2
Abs2(z) == z[1] * z[1] + z[2] * z[2]

\* power: (np.abs(self.amps) ** 2).sum(dim = "polarization")
power(self) ==
    With(amps(self), LAMBDA a :
        [coords |-> [orders_x |-> self.orders_x, orders_y |-> self.orders_y, f |-> self.f],
         values |-> Materialize([idx \in {ip[1] : ip \in DOMAIN a.values} |->
                        [scaled |-> Abs2(a.values[<<idx, "s">>].scaled)
                                      + Abs2(a.values[<<idx, "p">>].scaled),
                         over |-> a.values[<<idx, "s">>].over]])])

\* whether the stored far field of an order outside the light cone is zero
\* or not is up to the data
StoredPatterns == {"every order", "propagating orders"}

\* orders and domain size along y: a single order where the domain has no
\* extent along y
DiffractionY == {<<(<<0>>), 0>>, <<(<<0>>), 2>>, <<(<<0>>), 3>>, <<(<<0, 1>>), 2>>,
                 <<(<<0, 1>>), 3>>}

DiffractionDataInit(orders_x, orders_y, sim_size, bloch_vecs, pattern) ==
    LET shell == [orders_x |-> orders_x, orders_y |-> orders_y, f |-> DiffFreqs,
                  sim_size |-> sim_size, bloch_vecs |-> bloch_vecs]
        thetas == angles(shell)[1].values
        stored(c) == Materialize([idx \in DOMAIN thetas |->
                        IF pattern = "propagating orders" /\ thetas[idx].nan THEN <<0, 0>>
                        ELSE <<c + idx[1] + 2 * idx[3], idx[2] - c>>])
    IN  [kind |-> "diffraction",
         orders_x |-> orders_x,
         orders_y |-> orders_y,
         f |-> DiffFreqs,
         sim_size |-> sim_size,
         bloch_vecs |-> bloch_vecs,
         Etheta |-> stored(1),
         Ephi |-> stored(2)]

InitDiff ==
    /\ \E orders_x \in {<<-1, 0, 1>>, <<0, 1, 2>>}, y \in DiffractionY, size_x \in {2, 3},
          bloch_x \in {0, 1}, pattern \in StoredPatterns :
            heap = [i \in ObjIds |->
                      IF i = 1
                      THEN DiffractionDataInit(orders_x, y[1], <<size_x, y[2]>>,
                                               <<bloch_x, 0>>, pattern)
                      ELSE NoObj]
    /\ calls = << >>

\* data.angles
Angles(id) ==
    /\ Len(calls) < MaxCalls
    /\ id \in Live
    /\ calls' = Append(calls, [op |-> "angles", self |-> id, pre |-> heap[id],
                               ret |-> angles(heap[id])])
    /\ UNCHANGED heap

\* data.amps
Amps(id) ==
    /\ Len(calls) < MaxCalls
    /\ id \in Live
    /\ calls' = Append(calls, [op |-> "amps", self |-> id, pre |-> heap[id],
                               ret |-> amps(heap[id])])
    /\ UNCHANGED heap

\* data.power
Power(id) ==
    /\ Len(calls) < MaxCalls
    /\ id \in Live
    /\ calls' = Append(calls, [op |-> "power", self |-> id, pre |-> heap[id],
                               ret |-> power(heap[id])])
    /\ UNCHANGED heap

NextDiff ==
    \/ \E id \in ObjIds : Angles(id)
    \/ \E id \in ObjIds : Amps(id)
    \/ \E id \in ObjIds : Power(id)

SpecDiff == InitDiff /\ [][NextDiff]_vars

(***************************************************************************)
(* Properties of the diffraction orders.                                   *)
(***************************************************************************)
\* the positions of the full grid of orders and frequencies
OrderGrid(self) ==
    (1..Len(self.orders_x)) \X (1..Len(self.orders_y)) \X (1..Len(self.f))

\* the direction cosine of an order along in-plane axis a (1 for x, 2 for y)
\* at frequency freq, as a fraction
OrderCosine(self, a, order, freq) ==
    IF self.sim_size[a] = 0 THEN <<0, 1>>
    ELSE <<(self.bloch_vecs[a] + 2 * order) * WaveSpeed, 2 * self.sim_size[a] * freq>>

\* the numerator of 1 - ux^2 - uy^2 over the denominator (dx dy)^2 at a
\* position of the grid
LightConeMargin(self, idx) ==
    LET u == OrderCosine(self, 1, self.orders_x[idx[1]], self.f[idx[3]])
        v == OrderCosine(self, 2, self.orders_y[idx[2]], self.f[idx[3]])
    IN  <<(u[2] * u[2]) * (v[2] * v[2]) - (u[1] * u[1]) * (v[2] * v[2])
            - (v[1] * v[1]) * (u[2] * u[2]),
          (u[2] * u[2]) * (v[2] * v[2])>>

\* direction cosines outside the unit disk
Evanescent(self, idx) == LightConeMargin(self, idx)[1] < 0

\* direction cosines on the unit circle: cos(theta) = 0
Grazing(self, idx) == LightConeMargin(self, idx)[1] = 0

\* C17: every entry of amps, for both polarizations, and every entry of
\* power is zero at an evanescent order (direction cosines outside the unit
\* disk, angle not a number) whatever field values are stored for it, and
\* at an order with cos(theta) <= 0
C17_EvanescentOrdersCarryNoPower ==
    \A n \in CallIdx :
        /\ calls[n].op = "amps" =>
              \A idx \in OrderGrid(calls[n].pre), pol \in {"s", "p"} :
                  (Evanescent(calls[n].pre, idx) \/ Grazing(calls[n].pre, idx))
                      => calls[n].ret.values[<<idx, pol>>].scaled = <<0, 0>>
        /\ calls[n].op = "power" =>
              \A idx \in OrderGrid(calls[n].pre) :
                  (Evanescent(calls[n].pre, idx) \/ Grazing(calls[n].pre, idx))
                      => calls[n].ret.values[idx].scaled = 0

\* C18: angles, amps and power are indexed by the full grid of orders_x,
\* orders_y and f of the data (amps also by polarization) and carry these
\* coordinates; the entry at (ix, iy, k) is that of the order
\* (orders_x[ix], orders_y[iy]) at frequency f[k], with an angle that is
\* not a number exactly when the order is evanescent at that frequency
C18_FullOrderGridAtEveryFrequency ==
    \A n \in CallIdx :
        LET self == calls[n].pre
            ret == calls[n].ret
        IN  /\ calls[n].op = "angles" =>
                  /\ DOMAIN ret[1].values = OrderGrid(self)
                  /\ DOMAIN ret[2].values = OrderGrid(self)
                  /\ \A t \in 1..2 :
                        /\ ret[t].coords.orders_x = self.orders_x
                        /\ ret[t].coords.orders_y = self.orders_y
                        /\ ret[t].coords.f = self.f
                  /\ \A idx \in OrderGrid(self) :
                        /\ ret[1].values[idx].nan <=> Evanescent(self, idx)
                        /\ ~ret[1].values[idx].nan =>
                              ret[1].values[idx].cos2[1] * LightConeMargin(self, idx)[2]
                                = LightConeMargin(self, idx)[1] * ret[1].values[idx].cos2[2]
            /\ calls[n].op = "amps" =>
                  /\ DOMAIN ret.values = OrderGrid(self) \X {"s", "p"}
                  /\ ret.coords.orders_x = self.orders_x
                  /\ ret.coords.orders_y = self.orders_y
                  /\ ret.coords.f = self.f
            /\ calls[n].op = "power" =>
                  /\ DOMAIN ret.values = OrderGrid(self)
                  /\ ret.coords.orders_x = self.orders_x
                  /\ ret.coords.orders_y = self.orders_y
                  /\ ret.coords.f = self.f

C18_Witness ==
    \E n \in CallIdx, m \in CallIdx, l \in CallIdx :
        /\ calls[n].op = "angles" /\ calls[m].op = "power" /\ calls[l].op = "amps"
        /\ calls[n].pre.bloch_vecs[1] = 1
        /\ \E ix \in 1..Len(calls[n].pre.orders_x) :
              /\ calls[n].ret[1].values[<<ix, 1, 1>>].nan
              /\ ~calls[n].ret[1].values[<<ix, 1, 2>>].nan
              /\ <<ix, 1, 1>> \in DOMAIN calls[m].ret.values
              /\ <<<<ix, 1, 1>>, "p">> \in DOMAIN calls[l].ret.values

(***************************************************************************)
(* Normalization of solver modes (_normalize_modes) and the overlap of     *)
(* mode data with itself (dot).  Dividing the fields of a slice by         *)
(* sqrt(abs(flux)) is kept as the stored samples together with the square  *)
(* of the divisor, scaling2: the fields are the samples over               *)
(* sqrt(scaling2).                                                         *)
(***************************************************************************)
\* the flux of every slice, as the fraction <<numerator, denominator>>
modal_flux(self) ==
    Materialize([fm \in DOMAIN self.slices |->
        <<flux(Slice(self, fm[1], fm[2])), self.scaling2[fm]>>])

normalize_modes_common_scaling(mode_solver_data) ==
    With(modal_flux(mode_solver_data), LAMBDA fl :
        [mode_solver_data EXCEPT !.scaling2 =
            Materialize([fm \in DOMAIN fl |->
                (mode_solver_data.scaling2[fm] \div fl[<<fm[1], 1>>][2])
                    * Abs(fl[<<fm[1], 1>>][1])])])

\* _normalize_modes: scaling = np.sqrt(np.abs(flux)); field /= scaling for
\* every field component, in place
normalize_modes(mode_solver_data) ==
    With(modal_flux(mode_solver_data), LAMBDA fl :
        [mode_solver_data EXCEPT !.scaling2 =
            Materialize([fm \in DOMAIN fl |->
                (mode_solver_data.scaling2[fm] \div fl[fm][2]) * Abs(fl[fm][1])])])

\* dot of data with data on the same frequencies, mode indices and plane
\* grid: one overlap per (frequency, mode index), of the colocated
\* tangential fields of the two slices there; the value is num over
\* sqrt(den[1]) * sqrt(den[2])
dot(self, field_data, conjugate) ==
    [f |-> self.f,
     mode_index |-> self.mode_index,
     values |-> Materialize([fm \in DOMAIN self.slices |->
        With(<<Slice(self, fm[1], fm[2]), Slice(field_data, fm[1], fm[2])>>, LAMBDA sl :
            [num |-> overlap_sum(sl[1], fields_of_self(sl[1], conjugate),
                                 fields_of_self(sl[2], FALSE)),
             den |-> <<self.scaling2[fm], field_data.scaling2[fm]>>])])]

\* the field components with the magnetic field reversed
ReversedH(fields) ==
    [c \in DOMAIN fields |->
        IF IsH(c)
        THEN [fields[c] EXCEPT !.values = [idx \in DOMAIN fields[c].values |->
                                              0 - fields[c].values[idx]]]
        ELSE fields[c]]

\* the modes the solver returns for a propagation direction, not yet
\* normalized: a mode for "+" carries power along the plane normal, a mode
\* for "-" against it
SolverModes(normal, colocate, f, direction, seed) ==
    LET d == ModalDataInit("ModeSolverData", InPlaneComponents(normal), normal, FALSE, colocate,
                           <<0, 0, 0>>, <<1, 1>>, f, 2, direction, seed)
        along == IF direction = "+" THEN 1 ELSE 0 - 1
        oriented(fm) ==
            IF Sgn(flux(Slice(d, fm[1], fm[2]))) = 0 - along
            THEN [fields |-> ReversedH(d.slices[fm].fields),
                  fields_im |-> ReversedH(d.slices[fm].fields_im)]
            ELSE d.slices[fm]
    IN  [kind |-> d.kind, type |-> d.type, monitor |-> d.monitor, symmetry |-> d.symmetry,
         symmetry_center |-> d.symmetry_center, grid_expanded |-> d.grid_expanded,
         grid_primal_correction |-> d.grid_primal_correction,
         grid_dual_correction |-> d.grid_dual_correction,
         f |-> d.f, has_mode_index |-> d.has_mode_index, mode_index |-> d.mode_index,
         slices |-> Materialize([fm \in DOMAIN d.slices |-> oriented(fm)]),
         scaling2 |-> [fm \in DOMAIN d.slices |-> 1]]

ModeSeeds == 0..1

InitModes ==
    /\ \E normal \in {2, 3}, colocate \in BOOLEAN, f \in {<<1, 2>>},
          direction \in {"+", "-"}, seed \in ModeSeeds :
            /\ heap = [i \in ObjIds |->
                        IF i = 1 THEN SolverModes(normal, colocate, f, direction, seed)
                        ELSE NoObj]
            /\ \A fm \in DOMAIN heap[1].slices : flux(Slice(heap[1], fm[1], fm[2])) # 0
    /\ calls = << >>

\* mode_solver._normalize_modes(mode_solver_data)
NormalizeModes(id) ==
    /\ Len(calls) < MaxCalls
    /\ id \in Live
    /\ heap' = [heap EXCEPT ![id] = normalize_modes(heap[id])]
    /\ calls' = Append(calls, [op |-> "_normalize_modes", self |-> id,
                               direction |-> heap[id].monitor.store_fields_direction,
                               pre_flux |-> modal_flux(heap[id])])

\* mode_solver_data.dot(mode_solver_data, conjugate)
Dot(id, conjugate) ==
    /\ Len(calls) < MaxCalls
    /\ id \in Live
    /\ calls' = Append(calls, [op |-> "dot", self |-> id, conjugate |-> conjugate,
                               direction |-> heap[id].monitor.store_fields_direction,
                               ret |-> dot(heap[id], heap[id], conjugate)])
    /\ UNCHANGED heap

NextModes ==
    \/ \E id \in ObjIds : NormalizeModes(id)
    \/ \E id \in ObjIds, conjugate \in BOOLEAN : Dot(id, conjugate)

SpecModes == InitModes /\ [][NextModes]_vars

(***************************************************************************)
(* Properties of the normalized modes.                                     *)
(***************************************************************************)
\* calls of dot with the default conjugate = True on data that
\* _normalize_modes has normalized before
NormalizedDotCalls ==
    {n \in CallIdx : /\ calls[n].op = "dot" /\ calls[n].conjugate
                      /\ \E m \in 1..(n - 1) : calls[m].op = "_normalize_modes"}

\* the overlap value v = num / (sqrt(den[1]) * sqrt(den[2])) is the real
\* number c, for c = 1 or c = -1
OverlapIs(v, c) == v.den[1] = v.den[2] /\ v.den[1] > 0 /\ v.num = <<c * v.den[1], 0>>

Workers == 1..2

FrameId == 3

\* the index lists worker w runs the loop body on
scratch_shared(w) == 1

scratch_of(w) == w

\* the pairs (outer_1, outer_2) the loops range over
OuterPairs(self, field_data) == ModePositions(self) \X ModePositions(field_data)

\* the frame at the start of the loops: data = np.zeros(shape), the index
\* lists all slice(None) (here 0)
SummationFrame(self, field_data, conjugate) ==
    LET f == common_freqs(self.f, field_data.f)
        pairs == OuterPairs(self, field_data)
    IN  [kind |-> "outer_fn_summation",
         conjugate |-> conjugate,
         returned |-> FALSE,
         data |-> [idx \in (DOMAIN f) \X ModePositions(self) \X ModePositions(field_data) |->
                     <<0, 0>>],
         idx |-> [w \in Workers |-> [idx_1 |-> 0, idx_2 |-> 0, idx_data |-> <<0, 0>>]],
         unit |-> [w \in Workers |->
                     [pc |-> "idle", pair |-> <<0, 0>>, data_curr |-> [k \in DOMAIN f |-> <<0, 0>>]]],
         todo |-> pairs,
         stores |-> << >>,
         sequential |-> outer_fn_summation(self, field_data, conjugate)]

InitOuter ==
    /\ \E conjugate \in BOOLEAN, colocate \in BOOLEAN :
          heap = [i \in ObjIds |->
                    IF i = 1
                    THEN ModalDataInit("ModeData", InPlaneComponents(3), 3, FALSE, colocate,
                                       <<0, 0, 0>>, <<2, 3>>, <<1>>, 2, "+", 0)
                    ELSE IF i = 2
                    THEN ModalDataInit("ModeData", InPlaneComponents(3), 3, FALSE, FALSE,
                                       <<0, 0, 0>>, <<1, 1>>, <<1>>, 2, "+", 1)
                    ELSE IF i = FrameId
                    THEN SummationFrame(
                             ModalDataInit("ModeData", InPlaneComponents(3), 3, FALSE, colocate,
                                           <<0, 0, 0>>, <<2, 3>>, <<1>>, 2, "+", 0),
                             ModalDataInit("ModeData", InPlaneComponents(3), 3, FALSE, FALSE,
                                           <<0, 0, 0>>, <<1, 1>>, <<1>>, 2, "+", 1),
                             conjugate)
                    ELSE NoObj]
    /\ calls = << >>

\* idx_1[outer_axis_1] = outer_1; idx_2[outer_axis_2] = outer_2;
\* idx_data[-2] = outer_1; idx_data[-1] = outer_2
BeginUnit(w, pair) ==
    LET fr == heap[FrameId]
    IN  /\ ~fr.returned
        /\ fr.unit[w].pc = "idle"
        /\ pair \in fr.todo
        /\ heap' = [heap EXCEPT ![FrameId] =
                [fr EXCEPT !.todo = fr.todo \ {pair},
                           !.idx[scratch_of(w)] =
                               [idx_1 |-> pair[1], idx_2 |-> pair[2], idx_data |-> pair],
                           !.unit[w] = [fr.unit[w] EXCEPT !.pc = "indexed", !.pair = pair]]]
        /\ UNCHANGED calls

\* fields_1_curr, fields_2_curr, summand_curr = fn(...), data_curr = np.sum(...)
ComputeUnit(w) ==
    LET fr == heap[FrameId]
        idx == fr.idx[scratch_of(w)]
    IN  /\ fr.unit[w].pc = "indexed"
        /\ heap' = [heap EXCEPT ![FrameId] =
                [fr EXCEPT !.unit[w] =
                    [fr.unit[w] EXCEPT
                        !.pc = "computed",
                        !.data_curr = Materialize(outer_unit(heap[1], heap[2], fr.conjugate,
                                                             idx.idx_1, idx.idx_2))]]]
        /\ UNCHANGED calls

\* data[tuple(idx_data)] = data_curr
StoreUnit(w) ==
    LET fr == heap[FrameId]
        idx == fr.idx[scratch_of(w)]
    IN  /\ fr.unit[w].pc = "computed"
        /\ heap' = [heap EXCEPT ![FrameId] =
                [fr EXCEPT !.data = [c \in DOMAIN fr.data |->
                                        IF <<c[2], c[3]>> = idx.idx_data
                                        THEN fr.unit[w].data_curr[c[1]] ELSE fr.data[c]],
                           !.stores = Append(fr.stores, <<w, idx.idx_data>>),
                           !.unit[w] = [fr.unit[w] EXCEPT !.pc = "idle"]]]
        /\ UNCHANGED calls

\* return xr.DataArray(data, coords = coords), after the last unit
ReturnSummation ==
    LET fr == heap[FrameId]
    IN  /\ ~fr.returned
        /\ fr.todo = {}
        /\ \A w \in Workers : fr.unit[w].pc = "idle"
        /\ heap' = [heap EXCEPT ![FrameId] = [fr EXCEPT !.returned = TRUE]]
        /\ calls' = Append(calls, [op |-> "_outer_fn_summation", ret |-> fr.data])

NextOuter ==
    \/ \E w \in Workers, pair \in (1..2) \X (1..2) : BeginUnit(w, pair)
    \/ \E w \in Workers : ComputeUnit(w)
    \/ \E w \in Workers : StoreUnit(w)
    \/ ReturnSummation

SpecOuter == InitOuter /\ [][NextOuter]_vars

(***************************************************************************)
(* Properties of the units of work.                                        *)
(***************************************************************************)
\* how often the units have stored to the cells of the pair
StoreCount(fr, pair) == Cardinality({n \in DOMAIN fr.stores : fr.stores[n][2] = pair})

MaxSimulations == 1

\* the distance counts as large beyond this multiple of the largest side
LargeDistanceFactor == 10000

MaxOf(S) == CHOOSE m \in S : \A n \in S : n <= m

Sign(n) == IF n > 0 THEN 1 ELSE IF n < 0 THEN 0 - 1 ELSE 0

DirSign(dir) == IF dir = "+" THEN 1 ELSE 0 - 1

\* monitor.local_origin: custom_origin when given, else the center
local_origin(monitor) ==
    IF monitor.custom_origin = <<>> THEN monitor.center ELSE monitor.custom_origin[1]

projection_distance_is_large_any_kernel(size, monitor) ==
    Abs(monitor.proj_distance) > LargeDistanceFactor * MaxOf({size[k] : k \in DOMAIN size})

\* the exact kernel at a distance that is large for the domain
projection_distance_is_large(size, monitor) ==
    /\ Abs(monitor.proj_distance) > LargeDistanceFactor * MaxOf({size[k] : k \in DOMAIN size})
    /\ ~monitor.far_field_approx

\* coordinate of the observation points along the normal, relative to the
\* local origin, times the (positive) denominator of the cosine
normal_offset_scaled(monitor) ==
    IF monitor.type = "FieldProjectionAngleMonitor"
    THEN monitor.proj_distance * monitor.cos_theta[1]
    ELSE monitor.proj_distance * monitor.cos_theta[2]

projecting_backwards_ignoring_origin(monitor) ==
    Sign(normal_offset_scaled(monitor)) # DirSign(monitor.normal_dir)

\* the observation points, seen from the center of the surface, are not on
\* the side the normal direction points to
projecting_backwards(monitor) ==
    LET displacement == normal_offset_scaled(monitor)
                        + (local_origin(monitor) - monitor.center) * monitor.cos_theta[2]
    IN  Sign(displacement) # DirSign(monitor.normal_dir)

\* the log records of the validators, in the order they run
validate_monitors(size, monitor) ==
    (IF projection_distance_is_large(size, monitor) THEN <<"proj_distance">> ELSE << >>)
    \o (IF projecting_backwards(monitor) THEN <<"projecting backwards">> ELSE << >>)

SimSizes == {<<1, 1, 1>>, <<1, 20, 1>>}
MonitorDistances == {0 - 100000, 39, 100000}
MonitorOrigins == {<<>>, <<0 - 40>>}
MonitorCosines(type) ==
    IF type = "FieldProjectionAngleMonitor" THEN {<<1, 1>>, <<1, 50>>, <<0 - 1, 1>>}
    ELSE {<<1, 1>>}

ProjectionMonitors ==
    {[type |-> type, center |-> 0, proj_distance |-> d, far_field_approx |-> approx,
      normal_dir |-> dir, custom_origin |-> origin, cos_theta |-> c] :
        type \in {"FieldProjectionAngleMonitor"}, d \in MonitorDistances,
        approx \in BOOLEAN, dir \in {"+", "-"}, origin \in MonitorOrigins,
        c \in MonitorCosines("FieldProjectionAngleMonitor")}
    \cup
    {[type |-> type, center |-> 0, proj_distance |-> d, far_field_approx |-> approx,
      normal_dir |-> dir, custom_origin |-> origin, cos_theta |-> c] :
        type \in {"FieldProjectionCartesianMonitor"}, d \in MonitorDistances,
        approx \in BOOLEAN, dir \in {"+", "-"}, origin \in MonitorOrigins,
        c \in MonitorCosines("FieldProjectionCartesianMonitor")}

InitSim ==
    /\ heap = [i \in ObjIds |-> NoObj]
    /\ calls = << >>

\* td.Simulation(size = size, monitors = [monitor], ...)
ConstructSimulation(size, monitor) ==
    /\ Len(calls) < MaxSimulations
    /\ heap' = [heap EXCEPT ![NewId] =
                    [kind |-> "Simulation", size |-> size, monitors |-> <<monitor>>]]
    /\ calls' = Append(calls, [op |-> "Simulation", size |-> size, monitor |-> monitor,
                               log |-> validate_monitors(size, monitor), ret |-> NewId])

NextSim == \E size \in SimSizes, monitor \in ProjectionMonitors : ConstructSimulation(size, monitor)

SpecSim == InitSim /\ [][NextSim]_vars

(***************************************************************************)
(* Properties of the construction.                                         *)
(***************************************************************************)
Warnings(c, text) == Cardinality({n \in DOMAIN c.log : c.log[n] = text})

Constructed(c) ==
    /\ c.ret \in Live
    /\ heap[c.ret].kind = "Simulation"
    /\ heap[c.ret].monitors = <<c.monitor>>

C22_BackwardProjectionWarnsAndConstructs ==
    \A n \in CallIdx :
        LET c == calls[n]
            m == c.monitor
            origin == IF m.custom_origin = <<>> THEN 0 ELSE m.custom_origin[1]
            \* position along the normal, times the denominator of the cosine
            position == IF m.type = "FieldProjectionAngleMonitor"
                        THEN origin * m.cos_theta[2] + m.proj_distance * m.cos_theta[1]
                        ELSE origin + m.proj_distance
            behind == IF m.normal_dir = "+" THEN position < 0 ELSE position > 0
        IN  (c.op = "Simulation" /\ behind) =>
                /\ Warnings(c, "projecting backwards") = 1
                /\ Constructed(c)

\* a positive distance from a custom origin far behind the surface
C22_Witness ==
    /\ Len(calls) = 1
    /\ calls[1].monitor.type = "FieldProjectionCartesianMonitor"
    /\ calls[1].monitor.proj_distance = 39
    /\ calls[1].monitor.custom_origin = <<0 - 40>>
    /\ calls[1].monitor.normal_dir = "+"
    /\ Warnings(calls[1], "projecting backwards") = 1
    /\ Constructed(calls[1])

(***************************************************************************)
(* Tracking of modes across frequencies (ModeData.overlap_sort).  The data *)
(* holds, at every frequency, solved modes in some order and with some     *)
(* phase; a mode is uniform over the plane.  Indices of frequencies and of *)
(* modes that the code computes with (f0_ind, freq_id, sorting, pairs) are *)
(* kept 0-based as in the source; slices are stored by 1-based position.   *)
(* A phase angle is kept as a complex number that has this angle, so that  *)
(* adding angles is multiplying the numbers.                               *)
(***************************************************************************)
\* one uniform sample of a component of a solved mode: "A" and "B" carry
\* power along the normal z and "D" against it, and the three are mutually
\* orthogonal; "C" is the sum of "A" and "B"
SolvedSample(name, c) ==
    CASE name = "A" -> (CASE c = "Ex" -> 24 [] c = "Hy" -> 24 [] OTHER -> 0)
      [] name = "B" -> (CASE c = "Ey" -> 24 [] c = "Hx" -> 0 - 24 [] OTHER -> 0)
      [] name = "D" -> (CASE c = "Ex" -> 24 [] c = "Hy" -> 0 - 24 [] OTHER -> 0)
      [] name = "C" -> (CASE c = "Ex" -> 24 [] c = "Hy" -> 24 [] c = "Ey" -> 24
                          [] c = "Hx" -> 0 - 24 [] OTHER -> 0)

\* the complex number 1j ** p
IPower(p) == CASE p % 4 = 0 -> <<1, 0>> [] p % 4 = 1 -> <<0, 1>>
               [] p % 4 = 2 -> <<0 - 1, 0>> [] p % 4 = 3 -> <<0, 0 - 1>>

\* the effective index of a solved mode at a frequency
SolvedIndex(name, freq) ==
    <<(CASE name = "A" -> 40 [] name = "B" -> 30 [] name = "C" -> 20 [] name = "D" -> 10)
        + freq, 0>>

\* the grid correction factors <<primal, dual>> of a solved mode
SolvedCorrection(name) ==
    CASE name = "A" -> <<1, 1>> [] name = "B" -> <<1, 2>> [] name = "C" -> <<2, 1>>
      [] name = "D" -> <<2, 2>>

\* mode data of a mode monitor normal to z: rows[fi][mi] = <<name, p>> is the
\* solved mode at that frequency and mode index, times 1j ** p
TrackedModeData(rows, direction, correction_type) ==
    LET f == [fi \in DOMAIN rows |-> fi]
        num_modes == Len(rows[1])
        d == ModalDataInit("ModeData", InPlaneComponents(3), 3, FALSE, FALSE, <<0, 0, 0>>,
                           <<1, 1>>, f, num_modes, direction, 0)
        samples(fields, name, amp) ==
            [c \in DOMAIN fields |->
                [fields[c] EXCEPT !.values = [idx \in DOMAIN fields[c].values |->
                                                 amp * SolvedSample(name, c)]]]
        solved(fm) == rows[fm[1]][fm[2]]
        array == correction_type = "FreqModeDataArray"
    IN  [kind |-> d.kind, type |-> d.type,
         monitor |-> [size |-> d.monitor.size, bounds |-> d.monitor.bounds,
                      colocate |-> d.monitor.colocate,
                      interval_space |-> d.monitor.interval_space,
                      store_fields_direction |-> direction,
                      freqs |-> f,
                      mode_spec |-> [num_modes |-> num_modes, track_freq |-> "central"]],
         symmetry |-> d.symmetry, symmetry_center |-> d.symmetry_center,
         grid_expanded |-> d.grid_expanded,
         grid_correction_type |-> correction_type,
         grid_primal_correction |->
             IF array THEN [fm \in DOMAIN d.slices |-> SolvedCorrection(solved(fm)[1])[1]]
             ELSE 1,
         grid_dual_correction |->
             IF array THEN [fm \in DOMAIN d.slices |-> SolvedCorrection(solved(fm)[1])[2]]
             ELSE 1,
         f |-> f, has_mode_index |-> TRUE, mode_index |-> d.mode_index,
         slices |-> Materialize([fm \in DOMAIN d.slices |->
             [fields |-> samples(d.slices[fm].fields, solved(fm)[1],
                                 IPower(solved(fm)[2])[1]),
              fields_im |-> samples(d.slices[fm].fields_im, solved(fm)[1],
                                    IPower(solved(fm)[2])[2])]]),
         scaling2 |-> [fm \in DOMAIN d.slices |-> 1],
         n_complex |-> [fm \in DOMAIN d.slices |-> SolvedIndex(solved(fm)[1], f[fm[1]])]]

\* np.abs(a) < np.abs(b); for numbers on an axis without squaring
AbsLess(a, b) ==
    IF (a[1] = 0 \/ a[2] = 0) /\ (b[1] = 0 \/ b[2] = 0)
    THEN Abs(a[1]) + Abs(a[2]) < Abs(b[1]) + Abs(b[2])
    ELSE Abs2(a) < Abs2(b)

RECURSIVE GCD(_, _)
GCD(a, b) == IF b = 0 THEN a ELSE GCD(b, a % b)

\* a complex number with the angle np.angle(a), as short as integers allow;
\* np.angle(0) is 0
Direction(a) ==
    IF a = <<0, 0>> THEN <<1, 0>>
    ELSE LET g == GCD(Abs(a[1]), Abs(a[2])) IN <<a[1] \div g, a[2] \div g>>

\* the sum of two angles
AddAngles(p, q) == Direction(CMul(p, q))

\* field.isel(f = [freq_id]) of the fields and of the grid correction
\* factors; everything else, n_complex included, is kept
isel_f(self, freq_id) ==
    LET pick(array) == [fm \in {1} \X DOMAIN self.mode_index |->
                           array[<<freq_id + 1, fm[2]>>]]
    IN  [self EXCEPT !.f = <<self.f[freq_id + 1]>>,
                     !.slices = pick(self.slices),
                     !.scaling2 = pick(self.scaling2),
                     !.grid_primal_correction = pick(self.grid_primal_correction),
                     !.grid_dual_correction = pick(self.grid_dual_correction)]

\* field.isel(mode_index = modes), modes a list of mode indices
isel_mode_index(self, modes) ==
    LET pick(array) == [fm \in (DOMAIN self.f) \X DOMAIN modes |->
                           array[<<fm[1], modes[fm[2]] + 1>>]]
    IN  [self EXCEPT !.mode_index = [p \in DOMAIN modes |-> self.mode_index[modes[p] + 1]],
                     !.slices = pick(self.slices),
                     !.scaling2 = pick(self.scaling2),
                     !.grid_primal_correction = pick(self.grid_primal_correction),
                     !.grid_dual_correction = pick(self.grid_dual_correction)]

\* field.assign_coords(f = f)
assign_coords_f(self, f) == [self EXCEPT !.f = f]

\* a float has neither isel nor assign_coords nor copy
grid_corrections_are_floats(self) == self.grid_correction_type = "float"

(***************************************************************************)
(* _find_closest_pairs.  arr is an n by k array of complex overlaps over   *)
(* 0-based <<row, column>>; masked holds the positions where arr_abs has   *)
(* been set to -1.                                                         *)
(***************************************************************************)
\* np.unravel_index(np.argmax(arr_abs, axis = None), (n, k)): the first
\* position, row by row, of a largest entry of arr_abs
argmax_abs(arr, n, k, masked) ==
    LET idx == (0..(n - 1)) \X (0..(k - 1))
        flat(ij) == ij[1] * k + ij[2]
        less(x, y) == IF x \in masked THEN y \notin masked
                      ELSE y \notin masked /\ AbsLess(arr[x], arr[y])
    IN  CHOOSE x \in idx :
            \A y \in idx : ~less(x, y) /\ (flat(y) < flat(x) => less(y, x))

closest_pairs_step_row_only(arr, n, k, st) ==
    LET ij == argmax_abs(arr, n, k, st.masked)
    IN  [masked |-> st.masked \cup {<<ij[1], j>> : j \in 0..(k - 1)},
         pairs |-> [st.pairs EXCEPT ![ij[1]] = ij[2]],
         values |-> [st.values EXCEPT ![ij[1]] = arr[ij]],
         picks |-> Append(st.picks, [at |-> ij, masked |-> st.masked])]

\* one pass of the loop: the selection, pairs[imax] = jmax,
\* values[imax] = arr[imax, jmax], row imax and column jmax set to -1
closest_pairs_step(arr, n, k, st) ==
    LET ij == argmax_abs(arr, n, k, st.masked)
    IN  [masked |-> st.masked \cup {<<ij[1], j>> : j \in 0..(k - 1)}
                              \cup {<<i, ij[2]>> : i \in 0..(n - 1)},
         pairs |-> [st.pairs EXCEPT ![ij[1]] = ij[2]],
         values |-> [st.values EXCEPT ![ij[1]] = arr[ij]],
         picks |-> Append(st.picks, [at |-> ij, masked |-> st.masked])]

RECURSIVE closest_pairs_loop(_, _, _, _, _)
closest_pairs_loop(arr, n, k, st, passes) ==
    IF passes = 0 THEN st
    ELSE closest_pairs_loop(arr, n, k, closest_pairs_step(arr, n, k, st), passes - 1)

\* pairs = -np.ones(n), values = np.zeros(n), then n passes; picks records
\* the selections in order, each with the mask it was made under
find_closest_pairs(arr, n, k) ==
    IF n # k
    THEN [outcome |-> "DataError", message |-> "Overlap matrix must be square."]
    ELSE With(closest_pairs_loop(arr, n, k,
                  [masked |-> {}, pairs |-> [i \in 0..(n - 1) |-> 0 - 1],
                   values |-> [i \in 0..(n - 1) |-> <<0, 0>>], picks |-> << >>], n),
              LAMBDA st : [outcome |-> "ok", pairs |-> st.pairs, values |-> st.values,
                           picks |-> st.picks])

\* overlaps offered to _find_closest_pairs: zero, equal magnitudes with
\* different phases, and a larger one
OverlapEntries == {<<0, 0>>, <<0, 1>>, <<1, 0>>, <<2, 0>>}

OverlapShapes == {<<1, 1>>, <<2, 2>>, <<3, 3>>, <<1, 2>>, <<2, 1>>}

\* the local variables of one call of _find_closest_pairs
ClosestPairsFrame(arr, n, k) ==
    [kind |-> "_find_closest_pairs", arr |-> arr, n |-> n, k |-> k,
     st |-> [masked |-> {}, pairs |-> [i \in 0..(n - 1) |-> 0 - 1],
             values |-> [i \in 0..(n - 1) |-> <<0, 0>>], picks |-> << >>],
     pc |-> "called"]

InitPairs ==
    /\ \E shape \in OverlapShapes :
          \E arr \in [(0..(shape[1] - 1)) \X (0..(shape[2] - 1)) -> OverlapEntries] :
              /\ shape[1] = 3 => \A ij \in DOMAIN arr : arr[ij] # <<0, 1>>
              /\ heap = [i \in ObjIds |->
                            IF i = 1 THEN ClosestPairsFrame(arr, shape[1], shape[2])
                            ELSE NoObj]
    /\ calls = << >>

\* if n != k: raise DataError
RaiseNotSquare ==
    LET fr == heap[1]
    IN  /\ fr.pc = "called"
        /\ fr.n # fr.k
        /\ heap' = [heap EXCEPT ![1] = [fr EXCEPT !.pc = "raised"]]
        /\ calls' = Append(calls, [op |-> "_find_closest_pairs", outcome |-> "DataError",
                                   ret |-> find_closest_pairs(fr.arr, fr.n, fr.k)])

\* one pass of for _ in range(n)
SelectPair ==
    LET fr == heap[1]
    IN  /\ fr.pc \in {"called", "looping"}
        /\ fr.n = fr.k
        /\ Len(fr.st.picks) < fr.n
        /\ heap' = [heap EXCEPT ![1] =
                       [fr EXCEPT !.pc = "looping",
                                  !.st = closest_pairs_step(fr.arr, fr.n, fr.k, fr.st)]]
        /\ UNCHANGED calls

\* return pairs, values
ReturnPairs ==
    LET fr == heap[1]
    IN  /\ fr.pc \in {"called", "looping"}
        /\ fr.n = fr.k
        /\ Len(fr.st.picks) = fr.n
        /\ heap' = [heap EXCEPT ![1] = [fr EXCEPT !.pc = "returned"]]
        /\ calls' = Append(calls, [op |-> "_find_closest_pairs", outcome |-> "ok",
                                   ret |-> [pairs |-> fr.st.pairs, values |-> fr.st.values]])

NextPairs == RaiseNotSquare \/ SelectPair \/ ReturnPairs

SpecPairs == InitPairs /\ [][NextPairs]_vars

(***************************************************************************)
(* Properties of _find_closest_pairs.                                      *)
(***************************************************************************)
IsPermutation(row, n) ==
    /\ DOMAIN row = 0..(n - 1)
    /\ \A v \in 0..(n - 1) : Cardinality({i \in DOMAIN row : row[i] = v}) = 1

\* C25: on an n by n matrix the loop makes n selections and then returns;
\* every selection lies in a row and a column that no earlier selection
\* used and no entry in such a row and column has a larger magnitude; the
\* pairs returned assign every row a column of its own, and the values are
\* the selected entries
C25_GreedyPairsArePermutation ==
    LET fr == heap[1]
        picks == fr.st.picks
        rows_before(p) == {picks[q].at[1] : q \in 1..(p - 1)}
        cols_before(p) == {picks[q].at[2] : q \in 1..(p - 1)}
    IN  fr.n = fr.k =>
            /\ Len(picks) <= fr.n
            /\ \A p \in DOMAIN picks :
                  /\ picks[p].at[1] \notin rows_before(p)
                  /\ picks[p].at[2] \notin cols_before(p)
                  /\ \A i \in (0..(fr.n - 1)) \ rows_before(p),
                        j \in (0..(fr.n - 1)) \ cols_before(p) :
                          ~AbsLess(fr.arr[picks[p].at], fr.arr[<<i, j>>])
            /\ fr.pc = "returned" =>
                  /\ Len(picks) = fr.n
                  /\ IsPermutation(calls[1].ret.pairs, fr.n)
                  /\ \A i \in 0..(fr.n - 1) :
                        calls[1].ret.values[i] = fr.arr[<<i, calls[1].ret.pairs[i]>>]
                  /\ calls[1].ret.pairs = find_closest_pairs(fr.arr, fr.n, fr.k).pairs

\* a matrix with zero entries and equal magnitudes whose pairing is not the
\* identity
C25_Witness ==
    LET fr == heap[1]
    IN  /\ fr.pc = "returned"
        /\ fr.n = 3
        /\ fr.arr[<<0, 0>>] = <<0, 0>>
        /\ fr.arr[<<1, 1>>] = fr.arr[<<1, 2>>]
        /\ fr.arr[<<2, 0>>] = <<0, 0>> /\ fr.arr[<<2, 1>>] = <<0, 0>> /\ fr.arr[<<2, 2>>] = <<0, 0>>
        /\ calls[1].ret.pairs[0] # 0

(***************************************************************************)
(* overlap_sort, _find_ordering_one_freq and _reorder_modes.               *)
(***************************************************************************)
AttributeError(what) ==
    [outcome |-> "AttributeError", message |-> "'float' object has no attribute '" \o what \o "'"]

\* self.n_complex.sizes["mode_index"]
n_complex_modes(self) == Cardinality({fm[2] : fm \in DOMAIN self.n_complex})

\* self.dot(data_to_sort).data.ravel(), times -1 for direction "-"; both
\* data hold one frequency and store their samples unscaled
same_index_amps(self, data_to_sort) ==
    With(dot(self, data_to_sort, TRUE).values, LAMBDA values :
        Materialize([i \in 0..(n_complex_modes(self) - 1) |->
            IF self.monitor.store_fields_direction = "-"
            THEN <<0 - values[<<1, i + 1>>].num[1], 0 - values[<<1, i + 1>>].num[2]>>
            ELSE values[<<1, i + 1>>].num]))

\* outer_dot of the reduced data, .to_numpy()[0, :, :], times -1 for "-"
reduced_amps(self, data_to_sort, modes_to_sort) ==
    With(outer_dot(isel_mode_index(self, modes_to_sort),
                   isel_mode_index(data_to_sort, modes_to_sort), TRUE).values,
         LAMBDA values :
            Materialize([pq \in (0..(Len(modes_to_sort) - 1)) \X (0..(Len(modes_to_sort) - 1)) |->
                IF self.monitor.store_fields_direction = "-"
                THEN <<0 - values[<<1, pq[1] + 1, pq[2] + 1>>][1],
                       0 - values[<<1, pq[1] + 1, pq[2] + 1>>][2]>>
                ELSE values[<<1, pq[1] + 1, pq[2] + 1>>]]))

find_ordering_one_freq_sort_all(self, data_to_sort, overlap_thresh) ==
    With(same_index_amps(self, data_to_sort), LAMBDA complex_amps :
        With(SortedSeq(DOMAIN complex_amps), LAMBDA modes_to_sort :
            With(find_closest_pairs(reduced_amps(self, data_to_sort, modes_to_sort),
                                    Len(modes_to_sort), Len(modes_to_sort)),
                 LAMBDA closest :
                    [outcome |-> "ok",
                     pairs |-> [i \in DOMAIN complex_amps |-> closest.pairs[i]],
                     complex_amps |-> [i \in DOMAIN complex_amps |-> closest.values[i]]])))

\* _find_ordering_one_freq: pairs[i] is the mode of data_to_sort matched to
\* mode i of self, complex_amps[i] their overlap
find_ordering_one_freq(self, data_to_sort, overlap_thresh) ==
    With(same_index_amps(self, data_to_sort), LAMBDA complex_amps :
        With(SortedSeq({i \in DOMAIN complex_amps :
                           AbsLess(complex_amps[i], <<overlap_thresh, 0>>)}),
             LAMBDA modes_to_sort :
            IF Len(modes_to_sort) <= 1
            THEN [outcome |-> "ok",
                  pairs |-> [i \in DOMAIN complex_amps |-> i],
                  complex_amps |-> complex_amps]
            ELSE IF grid_corrections_are_floats(self)
            THEN AttributeError("isel")
            ELSE
                With(find_closest_pairs(reduced_amps(self, data_to_sort, modes_to_sort),
                                        Len(modes_to_sort), Len(modes_to_sort)),
                     LAMBDA closest :
                    LET pos(i) == CHOOSE p \in DOMAIN modes_to_sort : modes_to_sort[p] = i
                        sorted(i) == \E p \in DOMAIN modes_to_sort : modes_to_sort[p] = i
                    IN  [outcome |-> "ok",
                         pairs |-> [i \in DOMAIN complex_amps |->
                                      IF sorted(i)
                                      THEN modes_to_sort[closest.pairs[pos(i) - 1] + 1]
                                      ELSE i],
                         complex_amps |-> [i \in DOMAIN complex_amps |->
                                      IF sorted(i) THEN closest.values[pos(i) - 1]
                                      ELSE complex_amps[i]]])))

\* field * np.exp(-1j * phase) for one slice; the modulus of the number
\* that stands for the phase goes to the scaling
phase_shifted(slice, p) ==
    LET shift(re, im, x, y) ==
            [c \in DOMAIN re |->
                [re[c] EXCEPT !.values = [idx \in DOMAIN re[c].values |->
                    re[c].values[idx] * x + im[c].values[idx] * y]]]
    IN  [fields |-> shift(slice.fields, slice.fields_im, p[1], p[2]),
         fields_im |-> shift(slice.fields_im, slice.fields, p[1], 0 - p[2])]

\* _reorder_modes: copies of the field components, of the grid correction
\* factors and of n_complex with the modes at frequency freq_id rearranged
\* by sorting[freq_id], the fields times exp(-1j * phase); track_freq goes to
\* the mode_spec of the monitor; self is left as it is
reorder_modes(self, sorting, phase, track_freq) ==
    IF grid_corrections_are_floats(self) THEN AttributeError("copy")
    ELSE
        LET from(fm) == <<fm[1], sorting[fm[1] - 1][fm[2] - 1] + 1>>
            rearranged(array) == [fm \in DOMAIN array |-> array[from(fm)]]
        IN  [outcome |-> "ok",
             ret |-> [self EXCEPT
                !.slices = Materialize([fm \in DOMAIN self.slices |->
                    phase_shifted(self.slices[from(fm)], phase[fm[1] - 1][fm[2] - 1])]),
                !.scaling2 = [fm \in DOMAIN self.scaling2 |->
                    self.scaling2[from(fm)] * Abs2(phase[fm[1] - 1][fm[2] - 1])],
                !.grid_primal_correction = rearranged(self.grid_primal_correction),
                !.grid_dual_correction = rearranged(self.grid_dual_correction),
                !.n_complex = rearranged(self.n_complex),
                !.monitor = [self.monitor EXCEPT !.mode_spec =
                                [self.monitor.mode_spec EXCEPT !.track_freq = track_freq]]]]

\* f0_ind
base_frequency(track_freq, num_freqs) ==
    CASE track_freq = "lowest" -> 0
      [] track_freq = "highest" -> num_freqs - 1
      [] track_freq = "central" -> num_freqs \div 2

\* the <<freq_id, step>> of the passes of the two loops, in order:
\* range(f0_ind - 1, -1, -1), then range(f0_ind + 1, num_freqs, 1)
march_order(f0_ind, num_freqs) ==
    [i \in 1..f0_ind |-> <<f0_ind - i, 0 - 1>>]
    \o [i \in 1..(num_freqs - 1 - f0_ind) |-> <<f0_ind + i, 1>>]

\* the template and the data to sort of the pass for freq_id: the slice
\* of the frequency before it in the march and its own slice, both with
\* the coordinate of the base frequency
march_pair(self, f0_ind, freq_id, step) ==
    LET base == <<self.monitor.freqs[f0_ind + 1]>>
    IN  <<IF freq_id - step = f0_ind THEN isel_f(self, f0_ind)
          ELSE assign_coords_f(isel_f(self, freq_id - step), base),
          assign_coords_f(isel_f(self, freq_id), base)>>

sort_pass_uncomposed(self, f0_ind, overlap_thresh, st, freq_id, step) ==
    With(march_pair(self, f0_ind, freq_id, step), LAMBDA pair :
    With(find_ordering_one_freq(pair[1], pair[2], overlap_thresh), LAMBDA one :
        [st EXCEPT
            !.sorting[freq_id] = [m \in DOMAIN @ |-> one.pairs[m]],
            !.overlap[freq_id] = [m \in DOMAIN @ |-> one.complex_amps[m]],
            !.phase[freq_id] = [m \in DOMAIN @ |->
                AddAngles(st.phase[freq_id - step][m], Direction(one.complex_amps[m]))],
            !.passes = Append(@, [freq_id |-> freq_id, step |-> step,
                                  pairs |-> one.pairs, complex_amps |-> one.complex_amps])]))

\* one pass of the inner loop: the ordering with respect to the neighbour,
\* turned into the ordering with respect to the base frequency; overlaps,
\* phases and the warnings about discontinuities
sort_pass(self, f0_ind, overlap_thresh, st, freq_id, step) ==
    With(march_pair(self, f0_ind, freq_id, step), LAMBDA pair :
    With(find_ordering_one_freq(pair[1], pair[2], overlap_thresh), LAMBDA one :
        IF one.outcome # "ok" THEN [st EXCEPT !.outcome = one]
        ELSE
            LET before == st.sorting[freq_id - step]
                overlap == [m \in DOMAIN before |-> one.complex_amps[before[m]]]
            IN  [st EXCEPT
                    !.sorting[freq_id] = [m \in DOMAIN before |-> one.pairs[before[m]]],
                    !.overlap[freq_id] = overlap,
                    !.phase[freq_id] = [m \in DOMAIN before |->
                        AddAngles(st.phase[freq_id - step][m], Direction(overlap[m]))],
                    !.log = @ \o [k \in 1..Cardinality({m \in DOMAIN before :
                                        AbsLess(overlap[m], <<overlap_thresh, 0>>)}) |->
                                    [level |-> "WARNING", freq_id |-> freq_id]],
                    !.passes = Append(@, [freq_id |-> freq_id, step |-> step,
                                          pairs |-> one.pairs,
                                          complex_amps |-> one.complex_amps])]))

RECURSIVE march(_, _, _, _, _)
march(self, f0_ind, overlap_thresh, st, order) ==
    IF order = << >> \/ st.outcome.outcome # "ok" THEN st
    ELSE march(self, f0_ind, overlap_thresh,
               sort_pass(self, f0_ind, overlap_thresh, st, Head(order)[1], Head(order)[2]),
               Tail(order))

\* overlap_sort: sorting = -1, overlap = 0, phase = 0 everywhere but at the
\* base frequency (identity, 1, 0); the march; then _reorder_modes
overlap_sort(self, track_freq, overlap_thresh) ==
    LET num_freqs == Len(self.monitor.freqs)
        num_modes == self.monitor.mode_spec.num_modes
        f0_ind == base_frequency(track_freq, num_freqs)
        modes == 0..(num_modes - 1)
        start == [sorting |-> [fr \in 0..(num_freqs - 1) |->
                                 [m \in modes |-> IF fr = f0_ind THEN m ELSE 0 - 1]],
                  overlap |-> [fr \in 0..(num_freqs - 1) |->
                                 [m \in modes |-> IF fr = f0_ind THEN <<1, 0>> ELSE <<0, 0>>]],
                  phase |-> [fr \in 0..(num_freqs - 1) |-> [m \in modes |-> <<1, 0>>]],
                  log |-> << >>, passes |-> << >>,
                  outcome |-> [outcome |-> "ok"]]
    IN  IF DOMAIN self.slices[<<1, 1>>].fields = {}
        THEN [outcome |-> "ok", sorted |-> FALSE, ret |-> Copy(self)]
        ELSE IF grid_corrections_are_floats(self)
        THEN AttributeError("isel") @@ [sorted |-> FALSE]
        ELSE With(march(self, f0_ind, overlap_thresh, start, march_order(f0_ind, num_freqs)),
                  LAMBDA st :
                IF st.outcome.outcome # "ok" THEN st.outcome @@ [sorted |-> FALSE]
                ELSE [outcome |-> "ok", sorted |-> TRUE, f0_ind |-> f0_ind,
                      sorting |-> st.sorting, overlap |-> st.overlap, phase |-> st.phase,
                      log |-> st.log, passes |-> st.passes,
                      ret |-> reorder_modes(self, st.sorting, st.phase, track_freq).ret])

\* solved modes by frequency and mode index: in place throughout; crossing
\* twice; in place with turned phases; a mode that is not orthogonal to the
\* others; four frequencies
ModeRows ==
    {<< <<(<<"A", 0>>), (<<"B", 0>>), (<<"D", 0>>)>>,
        <<(<<"A", 0>>), (<<"B", 0>>), (<<"D", 0>>)>>,
        <<(<<"A", 0>>), (<<"B", 0>>), (<<"D", 0>>)>> >>,
     << <<(<<"A", 0>>), (<<"B", 0>>), (<<"D", 0>>)>>,
        <<(<<"B", 0>>), (<<"A", 0>>), (<<"D", 0>>)>>,
        <<(<<"B", 0>>), (<<"D", 0>>), (<<"A", 0>>)>> >>,
     << <<(<<"A", 0>>), (<<"B", 0>>), (<<"D", 0>>)>>,
        <<(<<"A", 2>>), (<<"D", 1>>), (<<"B", 0>>)>>,
        <<(<<"D", 3>>), (<<"A", 1>>), (<<"B", 2>>)>> >>,
     << <<(<<"A", 0>>), (<<"C", 0>>), (<<"D", 0>>)>>,
        <<(<<"C", 0>>), (<<"D", 0>>), (<<"A", 1>>)>>,
        <<(<<"D", 0>>), (<<"C", 0>>), (<<"A", 0>>)>> >>,
     << <<(<<"A", 0>>), (<<"B", 0>>)>>,
        <<(<<"B", 0>>), (<<"A", 0>>)>>,
        <<(<<"A", 1>>), (<<"B", 0>>)>>,
        <<(<<"B", 0>>), (<<"A", 0>>)>> >>}

OverlapThresholds == {2000, 5000}

TrackFreqs == {"central", "lowest", "highest"}

\* <<sorting, phase>> offered to _reorder_modes: the rows reversed with
\* phases zero; the rows turned by the frequency index with quarter turns
ReorderArgs(self) ==
    LET n == self.monitor.mode_spec.num_modes
        fs == 0..(Len(self.monitor.freqs) - 1)
    IN  {<<[fr \in fs |-> [m \in 0..(n - 1) |-> n - 1 - m]],
           [fr \in fs |-> [m \in 0..(n - 1) |-> <<1, 0>>]]>>,
         <<[fr \in fs |-> [m \in 0..(n - 1) |-> (m + fr) % n]],
           [fr \in fs |-> [m \in 0..(n - 1) |-> IPower(fr + 2 * m)]]>>}

\* the direction "-" is offered with the two modes at four frequencies
InitSort ==
    /\ \E rows \in ModeRows, direction \in {"+", "-"},
          correction_type \in {"float", "FreqModeDataArray"} :
            /\ direction = "-" => Len(rows) = 4
            /\ heap = [i \in ObjIds |->
                         IF i = 1 THEN TrackedModeData(rows, direction, correction_type)
                         ELSE NoObj]
    /\ calls = << >>

\* the record of a call of overlap_sort: what it raised, or the identity ret
\* and the value out of the data it returned
sort_call(id, self, track_freq, overlap_thresh, r, ret) ==
    [op |-> "overlap_sort", self |-> id, pre |-> self,
     track_freq |-> track_freq, overlap_thresh |-> overlap_thresh,
     outcome |-> r.outcome, sorted |-> r.sorted,
     run |-> IF r.sorted
             THEN [f0_ind |-> r.f0_ind, sorting |-> r.sorting, overlap |-> r.overlap,
                   phase |-> r.phase, log |-> r.log, passes |-> r.passes]
             ELSE [passes |-> << >>],
     ret |-> IF r.outcome = "ok" THEN ret ELSE 0,
     out |-> IF r.outcome = "ok" THEN r.ret ELSE NoObj]

\* the new object of the last call, if it returned one
allocated(history) ==
    LET c == history[Len(history)]
    IN  IF c.outcome = "ok" THEN [heap EXCEPT ![c.ret] = c.out] ELSE heap

\* data.overlap_sort(track_freq, overlap_thresh)
OverlapSort(id, track_freq, overlap_thresh) ==
    /\ Len(calls) < MaxOverlapCalls
    /\ id \in Live
    /\ calls' = With(overlap_sort(heap[id], track_freq, overlap_thresh), LAMBDA r :
                     Append(calls, sort_call(id, heap[id], track_freq, overlap_thresh, r,
                                             NewId)))
    /\ heap' = allocated(calls')

\* data._reorder_modes(sorting, phase, track_freq)
ReorderModes(id, sorting, phase, track_freq) ==
    /\ Len(calls) < MaxOverlapCalls
    /\ id \in Live
    /\ calls' = With(reorder_modes(heap[id], sorting, phase, track_freq), LAMBDA r :
                     Append(calls,
                         [op |-> "_reorder_modes", self |-> id, pre |-> heap[id],
                          sorting |-> sorting, phase |-> phase, track_freq |-> track_freq,
                          outcome |-> r.outcome,
                          ret |-> IF r.outcome = "ok" THEN NewId ELSE 0,
                          out |-> IF r.outcome = "ok" THEN r.ret ELSE NoObj]))
    /\ heap' = allocated(calls')

NextSort ==
    \/ \E id \in ObjIds, track_freq \in TrackFreqs, overlap_thresh \in OverlapThresholds :
          OverlapSort(id, track_freq, overlap_thresh)
    \/ \E id \in Live : \E args \in ReorderArgs(heap[id]) :
          ReorderModes(id, args[1], args[2], "lowest")

SpecSort == InitSort /\ [][NextSort]_vars

(***************************************************************************)
(* Properties of the tracking.                                             *)
(***************************************************************************)
\* calls of overlap_sort that went through the march
SortCalls == {n \in CallIdx : calls[n].op = "overlap_sort" /\ calls[n].sorted}

ReorderCalls == {n \in CallIdx : calls[n].op = "_reorder_modes"}

\* the overlap of mode i at frequency index fr_0 with mode j at frequency
\* index fr_1 of the same data (all indices 0-based)
ModeOverlap(data, fr_0, i, fr_1, j) ==
    With(<<Slice(data, fr_0 + 1, i + 1), Slice(data, fr_1 + 1, j + 1)>>, LAMBDA sl :
        overlap_sum(sl[1], fields_of_self(sl[1], TRUE), fields_of_self(sl[2], FALSE)))

\* the modes whose overlap with the mode of the same index at the
\* neighbouring frequency is below the threshold in magnitude
BelowThreshold(c, pass) ==
    {i \in DOMAIN pass.pairs :
        AbsLess(ModeOverlap(c.pre, pass.freq_id - pass.step, i, pass.freq_id, i),
                <<c.overlap_thresh, 0>>)}

\* C23: in every matching of one frequency against its neighbour, a mode
\* whose overlap with the mode of the same index reaches the threshold
\* keeps its index; the modes below the threshold are paired with modes
\* below the threshold, each with another; with at most one mode below the
\* threshold every mode keeps its index
C23_OnlyModesBelowThresholdAreRepaired ==
    \A n \in SortCalls :
        \A k \in DOMAIN calls[n].run.passes :
            LET pass == calls[n].run.passes[k]
                below == BelowThreshold(calls[n], pass)
            IN  /\ \A i \in (DOMAIN pass.pairs) \ below : pass.pairs[i] = i
                /\ {pass.pairs[i] : i \in below} = below
                /\ Cardinality(below) <= 1 => \A i \in DOMAIN pass.pairs : pass.pairs[i] = i

\* of three modes one reaches the threshold and stays, the two others are
\* below it and change places
C23_Witness ==
    \E n \in SortCalls :
        \E k \in DOMAIN calls[n].run.passes :
            LET pass == calls[n].run.passes[k]
                below == BelowThreshold(calls[n], pass)
            IN  /\ DOMAIN pass.pairs = 0..2
                /\ Cardinality(below) = 2
                /\ \A i \in below : pass.pairs[i] # i
                /\ \E i \in 0..2 : i \notin below /\ pass.pairs[i] = i

\* C24: every row of sorting is a permutation of 0..num_modes-1, none keeps
\* a -1; the row of the base frequency (0 for "lowest", num_freqs - 1 for
\* "highest", num_freqs // 2 for "central") is the identity; every other
\* frequency has exactly one pass, made after the pass of its neighbour on
\* the side of the base frequency (or next to the base frequency itself),
\* and its row is the pairs of its pass applied to the row of that neighbour
C24_SortingRowsArePermutations ==
    \A n \in SortCalls :
        LET c == calls[n]
            run == c.run
            num_freqs == Len(c.pre.monitor.freqs)
            num_modes == c.pre.monitor.mode_spec.num_modes
            base == IF c.track_freq = "lowest" THEN 0
                    ELSE IF c.track_freq = "highest" THEN num_freqs - 1
                    ELSE num_freqs \div 2
        IN  /\ DOMAIN run.sorting = 0..(num_freqs - 1)
            /\ \A fr \in 0..(num_freqs - 1) :
                  /\ IsPermutation(run.sorting[fr], num_modes)
                  /\ \A m \in 0..(num_modes - 1) : run.sorting[fr][m] # 0 - 1
            /\ \A m \in 0..(num_modes - 1) : run.sorting[base][m] = m
            /\ \A fr \in (0..(num_freqs - 1)) \ {base} :
                  Cardinality({k \in DOMAIN run.passes : run.passes[k].freq_id = fr}) = 1
            /\ \A k \in DOMAIN run.passes :
                  LET pass == run.passes[k]
                      toward == IF pass.freq_id > base THEN pass.freq_id - 1
                                ELSE pass.freq_id + 1
                  IN  /\ pass.freq_id # base
                      /\ pass.freq_id - pass.step = toward
                      /\ \/ toward = base
                         \/ \E j \in 1..(k - 1) : run.passes[j].freq_id = toward
                      /\ \A m \in 0..(num_modes - 1) :
                            run.sorting[pass.freq_id][m] = pass.pairs[run.sorting[toward][m]]

\* a march in both directions from the central one of four frequencies: the
\* modes change places at every step, so the row two steps down differs
\* from the pairs of its own pass
C24_Witness ==
    \E n \in SortCalls :
        LET run == calls[n].run
        IN  /\ calls[n].track_freq = "central"
            /\ Len(run.passes) = 3
            /\ run.passes[1].freq_id = 1 /\ run.passes[2].freq_id = 0
            /\ run.passes[3].freq_id = 3
            /\ run.sorting[0] # run.passes[2].pairs
            /\ run.sorting[1] # run.sorting[2]
            /\ run.sorting[3] # run.sorting[2]

\* C26 as stated: a call of _reorder_modes returns data in which, at every
\* frequency, the field components (turned by the phase given), n_complex
\* and both grid correction factors of mode index m are those that the data
\* it was called on has at mode index sorting[freq][m], so that the modes
\* of a frequency are the same collection before and after; and the data
\* it was called on is as before the call
C26_ReorderAppliesOnePermutation ==
    \A n \in ReorderCalls :
        LET c == calls[n]
            from(fm) == <<fm[1], c.sorting[fm[1] - 1][fm[2] - 1] + 1>>
        IN  /\ c.outcome = "ok"
            /\ heap[c.self] = c.pre
            /\ \A fm \in DOMAIN c.pre.slices :
                  /\ heap[c.ret].slices[fm] =
                        phase_shifted(c.pre.slices[from(fm)], c.phase[fm[1] - 1][fm[2] - 1])
                  /\ heap[c.ret].n_complex[fm] = c.pre.n_complex[from(fm)]
                  /\ heap[c.ret].grid_primal_correction[fm] =
                        c.pre.grid_primal_correction[from(fm)]
                  /\ heap[c.ret].grid_dual_correction[fm] =
                        c.pre.grid_dual_correction[from(fm)]
            /\ \A fi \in DOMAIN c.pre.f :
                  {<<c.pre.n_complex[<<fi, m>>], c.pre.grid_primal_correction[<<fi, m>>],
                     c.pre.grid_dual_correction[<<fi, m>>]>> : m \in DOMAIN c.pre.mode_index}
                  = {<<heap[c.ret].n_complex[<<fi, m>>],
                       heap[c.ret].grid_primal_correction[<<fi, m>>],
                       heap[c.ret].grid_dual_correction[<<fi, m>>]>> :
                        m \in DOMAIN c.pre.mode_index}

(***************************************************************************)
(* The mode solver (ModeSolver.data_raw).  The eigensolver is outside the  *)
(* program: a solution names, for every frequency, the modes it returns in *)
(* their order.  Frequencies are integers, the group index step is in      *)
(* percent.  The solver does not colocate and its mode_spec has no angles. *)
(***************************************************************************)
\* one uniform sample of a component of a mode of the eigensolver: the
\* modes of SolvedSample with a normal component of their own, and "Z",
\* which has no field at all
SolverSample(name, c) ==
    IF name = "Z" THEN 0
    ELSE IF c \in {"Ez", "Hz"}
    THEN (CASE name = "A" -> 1 [] name = "B" -> 2 [] name = "C" -> 3 [] name = "D" -> 4)
    ELSE SolvedSample(name, c)

\* the effective index the eigensolver returns with a mode
SolverIndex(name, freq) == IF name = "Z" THEN <<5 + freq, 0>> ELSE SolvedIndex(name, freq)

\* _grid_correction of a mode, <<primal, dual>>
SolverCorrection(name) ==
    CASE name = "A" -> <<1, 2>> [] name = "B" -> <<2, 1>> [] name = "C" -> <<1, 1>>
      [] name = "D" -> <<2, 1>> [] name = "Z" -> <<1, 1>>

\* the row of modes <<name, p>> (the mode times 1j ** p) that
\* _solve_all_freqs returns at a frequency
SolvedRow(solution, freq) ==
    CASE solution = "steady" -> <<(<<"A", 0>>), (<<"B", 0>>), (<<"D", 0>>)>>
      [] solution = "crossing" ->
            IF freq <= 100 THEN <<(<<"A", 0>>), (<<"B", 0>>), (<<"D", 0>>)>>
            ELSE IF freq < 200 THEN <<(<<"B", 1>>), (<<"A", 0>>), (<<"D", 0>>)>>
            ELSE <<(<<"B", 0>>), (<<"D", 2>>), (<<"A", 3>>)>>
      [] solution = "mixed" ->
            IF freq <= 100 THEN <<(<<"B", 0>>), (<<"Z", 0>>), (<<"A", 0>>), (<<"C", 0>>)>>
            ELSE <<(<<"C", 1>>), (<<"A", 0>>), (<<"Z", 0>>), (<<"D", 0>>)>>

\* eps_spec of the solve at a frequency
SolvedEpsSpec(freq) ==
    IF freq % 100 = 0 THEN "diagonal"
    ELSE IF freq % 100 < 50 THEN "tensorial_real" ELSE "tensorial_complex"

\* an object with nothing cached
EmptyCache == [c \in {} |-> 0]

\* cached_property: the getter computes the value at the first read of an
\* object and stores it; every later read of that object returns what is
\* stored
cached(self, name) == name \in DOMAIN self.cached_properties

cached_value(self, name, value) ==
    IF cached(self, name) THEN self.cached_properties[name] ELSE value

after_read(self, name, value) ==
    IF cached(self, name) THEN self
    ELSE [self EXCEPT !.cached_properties = (name :> value) @@ @]

\* copy(): a new object, with nothing cached
fresh_copy(self) == [self EXCEPT !.cached_properties = EmptyCache]

\* _data_on_yee_grid: the ModeSolverData of the solve at solver.freqs, with
\* the six field components, n_complex, the grid corrections as arrays over
\* (f, mode_index) and eps_spec
data_on_yee_grid(solver) ==
    With(ModalDataInit("ModeSolverData", EMComponents, 3, FALSE, FALSE, <<0, 0, 0>>,
                       <<1, 1>>, solver.freqs, solver.mode_spec.num_modes,
                       solver.direction, 0), LAMBDA d :
    With(Materialize([fm \in DOMAIN d.slices |->
            SolvedRow(solver.solution, solver.freqs[fm[1]])[fm[2]]]), LAMBDA solved :
        LET samples(fields, name, amp) ==
                ComputedFields([c \in DOMAIN fields |->
                    [fields[c] EXCEPT !.values = [idx \in DOMAIN fields[c].values |->
                                                     amp * SolverSample(name, c)]]])
        IN  [kind |-> d.kind, type |-> d.type,
             monitor |-> [size |-> d.monitor.size, bounds |-> d.monitor.bounds,
                          colocate |-> FALSE,
                          interval_space |-> d.monitor.interval_space,
                          direction |-> solver.direction,
                          store_fields_direction |-> solver.direction,
                          freqs |-> solver.freqs,
                          mode_spec |-> solver.mode_spec],
             symmetry |-> d.symmetry, symmetry_center |-> d.symmetry_center,
             grid_expanded |-> d.grid_expanded,
             grid_correction_type |-> "FreqModeDataArray",
             grid_primal_correction |->
                 Materialize([fm \in DOMAIN solved |-> SolverCorrection(solved[fm][1])[1]]),
             grid_dual_correction |->
                 Materialize([fm \in DOMAIN solved |-> SolverCorrection(solved[fm][1])[2]]),
             eps_spec |-> Materialize([fi \in DOMAIN solver.freqs |->
                                         SolvedEpsSpec(solver.freqs[fi])]),
             f |-> solver.freqs, has_mode_index |-> TRUE, mode_index |-> d.mode_index,
             slices |-> Materialize([fm \in DOMAIN solved |->
                 [fields |-> samples(d.slices[fm].fields, solved[fm][1],
                                     IPower(solved[fm][2])[1]),
                  fields_im |-> samples(d.slices[fm].fields_im, solved[fm][1],
                                        IPower(solved[fm][2])[2])]]),
             scaling2 |-> Materialize([fm \in DOMAIN solved |-> 1]),
             n_complex |-> Materialize([fm \in DOMAIN solved |->
                              SolverIndex(solved[fm][1], solver.freqs[fm[1]])]),
             cached_properties |-> EmptyCache]))

\* pol_fraction.te as the fraction te / total of the integrals of |E|^2
\* along the first tangential axis and along both, of the colocated fields
\* without grid corrections; den is what the stored samples are divided by
\* squared, so that the fraction is NaN where total or den is zero
pol_fraction(self) ==
    Materialize([fm \in DOMAIN self.slices |->
        With(Slice(self, fm[1], fm[2]), LAMBDA sl :
        With(<<colocated_fields(sl), colocated_fields(ImPart(sl)), diff_area(sl).ret,
               tangential_dims(sl), zero_dims(sl.monitor)[1]>>, LAMBDA p :
            LET intensity(k) ==
                    With(<<Squeeze(p[1][ComponentName("E", p[4][k])], p[5]).values,
                           Squeeze(p[2][ComponentName("E", p[4][k])], p[5]).values>>,
                         LAMBDA e :
                            SumOver([ij \in DOMAIN p[3] |->
                                        p[3][ij] * (e[1][ij] * e[1][ij] + e[2][ij] * e[2][ij])],
                                    DOMAIN p[3]))
            IN  [te |-> intensity(1), total |-> intensity(1) + intensity(2),
                 den |-> self.scaling2[fm]]))])

\* np.isnan(te_frac)
IsNaN(frac) == frac.total = 0 \/ frac.den = 0

\* te_frac >= 0.5, te_frac <= 0.5, te_frac < 0.5, te_frac > 0.5: a
\* comparison with NaN is False
AtLeastHalf(frac) == ~IsNaN(frac) /\ 2 * frac.te >= frac.total

AtMostHalf(frac) == ~IsNaN(frac) /\ 2 * frac.te <= frac.total

BelowHalf(frac) == ~IsNaN(frac) /\ 2 * frac.te < frac.total

AboveHalf(frac) == ~IsNaN(frac) /\ 2 * frac.te > frac.total

\* np.where(cond)[0]: the mode indices where cond holds, ascending
where(n, Cond(_)) == SortedSeq({i \in 0..(n - 1) : Cond(i)})

sort_inds_strict(filter_pol, te_frac, n) ==
    IF filter_pol = "te"
    THEN where(n, LAMBDA i : AboveHalf(te_frac[i]))
            \o where(n, LAMBDA i : AtMostHalf(te_frac[i]))
            \o where(n, LAMBDA i : IsNaN(te_frac[i]))
    ELSE where(n, LAMBDA i : BelowHalf(te_frac[i]))
            \o where(n, LAMBDA i : AtLeastHalf(te_frac[i]))
            \o where(n, LAMBDA i : IsNaN(te_frac[i]))

\* sort_inds of one frequency, te_frac over the n mode indices
sort_inds(filter_pol, te_frac, n) ==
    IF filter_pol = "te"
    THEN where(n, LAMBDA i : AtLeastHalf(te_frac[i]))
            \o where(n, LAMBDA i : BelowHalf(te_frac[i]))
            \o where(n, LAMBDA i : IsNaN(te_frac[i]))
    ELSE where(n, LAMBDA i : AtMostHalf(te_frac[i]))
            \o where(n, LAMBDA i : AboveHalf(te_frac[i]))
            \o where(n, LAMBDA i : IsNaN(te_frac[i]))

\* _filter_polarization: pol_fraction is read once; then, for every
\* frequency index of the solver, the values of every field component, of
\* n_complex and of both grid corrections are rearranged along mode_index
\* by sort_inds, in place
filter_polarization(solver, mode_solver_data) ==
    With(cached_value(mode_solver_data, "pol_fraction", pol_fraction(mode_solver_data)),
         LAMBDA pol_frac :
    With(Materialize([fi \in 1..Len(solver.freqs) |->
            sort_inds(solver.mode_spec.filter_pol,
                      [m \in 0..(Len(mode_solver_data.mode_index) - 1) |->
                          pol_frac[<<fi, m + 1>>]],
                      Len(mode_solver_data.mode_index))]),
         LAMBDA inds :
            LET from(fm) == <<fm[1], inds[fm[1]][fm[2]] + 1>>
                rearranged(array) == Materialize([fm \in DOMAIN array |-> array[from(fm)]])
            IN  [after_read(mode_solver_data, "pol_fraction", pol_frac) EXCEPT
                    !.slices = rearranged(mode_solver_data.slices),
                    !.scaling2 = rearranged(mode_solver_data.scaling2),
                    !.n_complex = rearranged(mode_solver_data.n_complex),
                    !.grid_primal_correction =
                        rearranged(mode_solver_data.grid_primal_correction),
                    !.grid_dual_correction =
                        rearranged(mode_solver_data.grid_dual_correction)]))

\* _normalize_modes as data_raw calls it: flux is read, which stores it in
\* the data, and the fields are divided in place
normalize_modes_in_place(mode_solver_data) ==
    With(cached_value(mode_solver_data, "flux", modal_flux(mode_solver_data)), LAMBDA fl :
        [after_read(mode_solver_data, "flux", fl) EXCEPT !.scaling2 =
            Materialize([fm \in DOMAIN fl |->
                (mode_solver_data.scaling2[fm] \div fl[fm][2]) * Abs(fl[fm][1])])])

\* FIELD_DECAY_CUTOFF = 1e-2, in percent
FieldDecayCutoffPercent == 1

\* _field_decay_warning: the (freq_index, mode_index) warned about, in
\* order; the intensity of E at the first and last sample along the plane
\* dimensions that Ex has more than one sample of, against the whole
field_decay_warning(field_data) ==
    LET plane_dims == tangential_dims(field_data)
        abs2(c, fm, idx) ==
            field_data.slices[fm].fields[c].values[idx]
                * field_data.slices[fm].fields[c].values[idx]
            + field_data.slices[fm].fields_im[c].values[idx]
                * field_data.slices[fm].fields_im[c].values[idx]
        samples(c, fm) == DOMAIN field_data.slices[fm].fields[c].values
        size(c, fm, a) == Len(field_data.slices[fm].fields[c].coords[a])
        all(fm) == UNION {{<<c, idx>> : idx \in samples(c, fm)} : c \in {"Ex", "Ey", "Ez"}}
        e_norm(fm) == SumOver([ci \in all(fm) |-> abs2(ci[1], fm, ci[2])], all(fm))
        edge(fm) ==
            {x \in all(fm) \X {1, 2} \X {"first", "last"} :
                /\ size("Ex", fm, plane_dims[x[2]]) > 1
                /\ x[1][2][plane_dims[x[2]]] = IF x[3] = "first" THEN 1
                                               ELSE size(x[1][1], fm, plane_dims[x[2]])}
        e_edge(fm) == SumOver([x \in edge(fm) |-> abs2(x[1][1], fm, x[1][2])], edge(fm))
        warned == {fm \in DOMAIN field_data.slices :
                      /\ field_data.scaling2[fm] # 0
                      /\ e_norm(fm) # 0
                      /\ 100 * e_edge(fm) > FieldDecayCutoffPercent * e_norm(fm)}
    IN  With(warned, LAMBDA w :
            Materialize([k \in 1..Cardinality(w) |->
                CHOOSE fm \in w :
                    Cardinality({gm \in w :
                        gm[1] < fm[1] \/ (gm[1] = fm[1] /\ gm[2] < fm[2])}) = k - 1]))

\* the default overlap_thresh = 0.9 of overlap_sort, for overlaps of
\* stored samples that are all divided by the same number squared
default_overlap_thresh(self) == (9 * self.scaling2[<<1, 1>>] + 9) \div 10

\* data_raw without group index: the solve, the normalization, the filter
\* if filter_pol is set, the tracking if track_freq is set and there is more
\* than one frequency (overlap_sort returns a copy), the warnings
solve_and_process(solver) ==
    With(data_on_yee_grid(solver), LAMBDA yee :
    With(normalize_modes_in_place(yee), LAMBDA normalized :
    With(IF solver.mode_spec.filter_pol # "None"
         THEN filter_polarization(solver, normalized) ELSE normalized, LAMBDA filtered :
    With(IF solver.mode_spec.track_freq # "None" /\ Len(solver.freqs) > 1
         THEN fresh_copy(overlap_sort(filtered, solver.mode_spec.track_freq,
                                      default_overlap_thresh(filtered)).ret)
         ELSE filtered, LAMBDA tracked :
        [yee |-> yee, normalized |-> normalized, filtered |-> filtered,
         log |-> field_decay_warning(symmetry_expanded(tracked)),
         ret |-> tracked]))))

\* _freqs_for_group_index: np.outer(freqs, (1 - f_step, 1, 1 + f_step)),
\* flattened row by row
freqs_for_group_index(solver) ==
    [k \in 1..(3 * Len(solver.freqs)) |->
        (solver.freqs[(k + 2) \div 3]
            * (100 + (((k - 1) % 3) - 1) * solver.mode_spec.group_index_step)) \div 100]

\* the positions of slice(start, num_freqs, 3), start 0-based, as 1-based
\* positions in order
every_third(start, num_freqs) ==
    [i \in 1..((num_freqs - start + 2) \div 3) |-> start + 3 * (i - 1) + 1]

group_index_post_process_first_of_three(self, frequency_step) ==
    LET num_freqs == Len(self.f)
        back == every_third(0, num_freqs)
        center == every_third(1, num_freqs)
        fwd == every_third(2, num_freqs)
        freqs == [i \in DOMAIN center |-> self.f[center[i]]]
        n_eff(fi, mi) == self.n_complex[<<fi, mi>>][1]
        inv_step == 100 \div frequency_step
        kept(array) == Materialize([fm \in (DOMAIN center) \X DOMAIN self.mode_index |->
                                       array[<<back[fm[1]], fm[2]>>]])
        with_group_index ==
            [n_group_raw |-> Materialize([fm \in (DOMAIN center) \X DOMAIN self.mode_index |->
                n_eff(center[fm[1]], fm[2])
                    + ((n_eff(fwd[fm[1]], fm[2]) - n_eff(back[fm[1]], fm[2])) * inv_step) \div 2]),
             dispersion_raw |-> Materialize([fm \in (DOMAIN center) \X DOMAIN self.mode_index |->
                (n_eff(fwd[fm[1]], fm[2]) * (inv_step + 1)
                    + n_eff(back[fm[1]], fm[2]) * (inv_step - 1)
                    - n_eff(center[fm[1]], fm[2]) * inv_step * 2) * freqs[fm[1]]])]
                @@ fresh_copy(self)
    IN  [with_group_index EXCEPT
            !.n_complex = kept(self.n_complex),
            !.slices = kept(self.slices),
            !.scaling2 = kept(self.scaling2),
            !.grid_primal_correction = kept(self.grid_primal_correction),
            !.grid_dual_correction = kept(self.grid_dual_correction),
            !.eps_spec = IF self.eps_spec # << >>
                         THEN [i \in DOMAIN center |-> self.eps_spec[center[i]]] ELSE @,
            !.f = freqs,
            !.monitor = [self.monitor EXCEPT !.freqs = freqs]]

\* _group_index_post_process: n_group_raw and dispersion_raw (in units of
\* -1e18 * inv_step / C_0 ** 2) from the backward, center and forward
\* entries; n_complex, the fields, the grid corrections, eps_spec and the
\* frequencies of the monitor at the center entries only; a copy
group_index_post_process(self, frequency_step) ==
    LET num_freqs == Len(self.f)
        back == every_third(0, num_freqs)
        center == every_third(1, num_freqs)
        fwd == every_third(2, num_freqs)
        freqs == [i \in DOMAIN center |-> self.f[center[i]]]
        n_eff(fi, mi) == self.n_complex[<<fi, mi>>][1]
        inv_step == 100 \div frequency_step
        kept(array) == Materialize([fm \in (DOMAIN center) \X DOMAIN self.mode_index |->
                                       array[<<center[fm[1]], fm[2]>>]])
        with_group_index ==
            [n_group_raw |-> Materialize([fm \in (DOMAIN center) \X DOMAIN self.mode_index |->
                n_eff(center[fm[1]], fm[2])
                    + ((n_eff(fwd[fm[1]], fm[2]) - n_eff(back[fm[1]], fm[2])) * inv_step) \div 2]),
             dispersion_raw |-> Materialize([fm \in (DOMAIN center) \X DOMAIN self.mode_index |->
                (n_eff(fwd[fm[1]], fm[2]) * (inv_step + 1)
                    + n_eff(back[fm[1]], fm[2]) * (inv_step - 1)
                    - n_eff(center[fm[1]], fm[2]) * inv_step * 2) * freqs[fm[1]]])]
                @@ fresh_copy(self)
    IN  [with_group_index EXCEPT
            !.n_complex = kept(self.n_complex),
            !.slices = kept(self.slices),
            !.scaling2 = kept(self.scaling2),
            !.grid_primal_correction = kept(self.grid_primal_correction),
            !.grid_dual_correction = kept(self.grid_dual_correction),
            !.eps_spec = IF self.eps_spec # << >>
                         THEN [i \in DOMAIN center |-> self.eps_spec[center[i]]] ELSE @,
            !.f = freqs,
            !.monitor = [self.monitor EXCEPT !.freqs = freqs]]

\* _get_data_with_group_index: a copy of the solver with the frequencies of
\* _freqs_for_group_index and group_index_step False; its data_raw; the
\* post-processing with the step of this solver
get_data_with_group_index(solver) ==
    With(solve_and_process([solver EXCEPT !.freqs = freqs_for_group_index(solver),
                                          !.mode_spec.group_index_step = 0,
                                          !.cached_properties = EmptyCache]),
         LAMBDA run :
            [run EXCEPT !.ret = group_index_post_process(run.ret,
                                                         solver.mode_spec.group_index_step)]
                @@ [raw |-> run.ret])

\* data_raw, computed
data_raw(solver) ==
    IF solver.mode_spec.group_index_step > 0
    THEN get_data_with_group_index(solver)
    ELSE solve_and_process(solver) @@ [raw |-> NoObj]

\* a ModeSolver
ModeSolverInit(solution, freqs, filter_pol, track_freq, group_index_step, direction) ==
    [kind |-> "ModeSolver", solution |-> solution, freqs |-> freqs, direction |-> direction,
     colocate |-> FALSE,
     mode_spec |-> [num_modes |-> Len(SolvedRow(solution, freqs[1])),
                    filter_pol |-> filter_pol, track_freq |-> track_freq,
                    group_index_step |-> group_index_step],
     cached_properties |-> EmptyCache]

\* the solvers offered; a solver that tracks more than one frequency gets
\* modes of equal power only
SolverConfigs ==
    {<<"mixed", <<100, 200>>, "te", "None", 0, "+">>,
     <<"mixed", <<100, 200>>, "tm", "None", 0, "+">>,
     <<"mixed", <<100>>, "te", "central", 0, "+">>,
     <<"mixed", <<100, 200>>, "te", "None", 10, "+">>,
     <<"steady", <<100, 200>>, "None", "None", 0, "+">>,
     <<"steady", <<100>>, "tm", "None", 10, "-">>,
     <<"steady", <<100, 200>>, "None", "highest", 0, "-">>,
     <<"crossing", <<100, 200>>, "None", "central", 0, "+">>,
     <<"crossing", <<100, 200>>, "te", "lowest", 0, "+">>,
     <<"crossing", <<100, 200>>, "None", "None", 10, "+">>,
     <<"crossing", <<200, 100>>, "tm", "None", 10, "+">>,
     <<"crossing", <<100, 200>>, "None", "central", 10, "+">>}

InitSolver ==
    /\ \E c \in SolverConfigs :
          heap = [i \in ObjIds |->
                    IF i = 1 THEN ModeSolverInit(c[1], c[2], c[3], c[4], c[5], c[6])
                    ELSE NoObj]
    /\ calls = << >>

\* the record of the first read of data_raw
data_raw_call(id, solver, run, ret) ==
    [op |-> "data_raw", self |-> id, solver |-> solver, computed |-> TRUE,
     yee |-> run.yee, normalized |-> run.normalized, filtered |-> run.filtered,
     raw |-> run.raw, log |-> run.log, ret |-> ret, out |-> run.ret]

\* mode_solver.data_raw, read for the first time: the data is computed and
\* stored in the solver
DataRaw(id) ==
    /\ Len(calls) < MaxCalls
    /\ id \in Live
    /\ heap[id].kind = "ModeSolver"
    /\ ~cached(heap[id], "data_raw")
    /\ calls' = With(data_raw(heap[id]), LAMBDA run :
                     Append(calls, data_raw_call(id, heap[id], run, NewId)))
    /\ heap' = [heap EXCEPT ![id] = after_read(heap[id], "data_raw", NewId),
                            ![NewId] = calls'[Len(calls')].out]

\* mode_solver.data_raw, read again: the stored data
DataRawAgain(id) ==
    /\ Len(calls) < MaxCalls
    /\ id \in Live
    /\ heap[id].kind = "ModeSolver"
    /\ cached(heap[id], "data_raw")
    /\ calls' = Append(calls, [op |-> "data_raw", self |-> id, computed |-> FALSE,
                               ret |-> heap[id].cached_properties["data_raw"]])
    /\ UNCHANGED heap

\* data.flux read from the data that data_raw returned
ReadFlux(id) ==
    /\ Len(calls) < MaxCalls
    /\ id \in Live
    /\ heap[id].kind = "modal"
    /\ calls' = Append(calls, [op |-> "flux", self |-> id, was_cached |-> cached(heap[id], "flux"),
                               ret |-> cached_value(heap[id], "flux", modal_flux(heap[id]))])
    /\ heap' = [heap EXCEPT ![id] = after_read(heap[id], "flux", calls'[Len(calls')].ret)]

\* data.pol_fraction read from the data that data_raw returned
ReadPolFraction(id) ==
    /\ Len(calls) < MaxCalls
    /\ id \in Live
    /\ heap[id].kind = "modal"
    /\ calls' = Append(calls, [op |-> "pol_fraction", self |-> id,
                               was_cached |-> cached(heap[id], "pol_fraction"),
                               ret |-> cached_value(heap[id], "pol_fraction",
                                                    pol_fraction(heap[id]))])
    /\ heap' = [heap EXCEPT ![id] = after_read(heap[id], "pol_fraction",
                                               calls'[Len(calls')].ret)]

NextSolver ==
    \/ \E id \in ObjIds : DataRaw(id)
    \/ \E id \in ObjIds : DataRawAgain(id)
    \/ \E id \in ObjIds : ReadFlux(id)
    \/ \E id \in ObjIds : ReadPolFraction(id)

SpecSolver == InitSolver /\ [][NextSolver]_vars


(***************************************************************************)
(* Properties of the mode solver.                                          *)
(***************************************************************************)
\* first reads of data_raw, and those of a solver that filters
SolveCalls == {n \in CallIdx : calls[n].op = "data_raw" /\ calls[n].computed}

FilterCalls == {n \in SolveCalls : calls[n].solver.mode_spec.filter_pol # "None"}

\* the group of a mode for the filter: 1 for the modes put first, 2 for the
\* remaining ones, 3 for the modes with undefined fraction
PolGroup(filter_pol, frac) ==
    IF IsNaN(frac) THEN 3
    ELSE IF filter_pol = "te" THEN (IF 2 * frac.te >= frac.total THEN 1 ELSE 2)
    ELSE (IF 2 * frac.te <= frac.total THEN 1 ELSE 2)

\* what the data holds for the mode at a frequency index and a mode index:
\* the six field components, n_complex and both grid correction factors
ModeEntry(data, fi, mi) ==
    [fields |-> data.slices[<<fi, mi>>], scaling2 |-> data.scaling2[<<fi, mi>>],
     n_complex |-> data.n_complex[<<fi, mi>>],
     grid_primal_correction |-> data.grid_primal_correction[<<fi, mi>>],
     grid_dual_correction |-> data.grid_dual_correction[<<fi, mi>>]]

\* C27: for filter_pol "te" (resp. "tm"), at every frequency
\* _filter_polarization rearranges the modes by one permutation of the mode
\* indices that puts the modes with TE fraction >= 0.5 (resp. <= 0.5) first,
\* then the remaining modes, then the modes whose fraction is NaN, in their
\* original order inside each group; the six field components, n_complex and
\* both grid corrections all follow that permutation
C27_FilterIsStablePartition ==
    \A n \in FilterCalls :
        LET before == calls[n].normalized
            after == calls[n].filtered
            filter_pol == calls[n].solver.mode_spec.filter_pol
            modes == 0..(Len(before.mode_index) - 1)
            frac == pol_fraction(before)
            group(fi, m) == PolGroup(filter_pol, frac[<<fi, m + 1>>])
        IN  /\ DOMAIN after.slices = DOMAIN before.slices
            /\ \A fm \in DOMAIN after.slices : DOMAIN after.slices[fm].fields = EMComponents
            /\ \A fi \in DOMAIN before.f :
                  \E perm \in [modes -> modes] :
                      /\ \A k, l \in modes : k # l => perm[k] # perm[l]
                      /\ \A k, l \in modes :
                            k < l => \/ group(fi, perm[k]) < group(fi, perm[l])
                                     \/ /\ group(fi, perm[k]) = group(fi, perm[l])
                                        /\ perm[k] < perm[l]
                      /\ \A k \in modes :
                            ModeEntry(after, fi, k + 1) = ModeEntry(before, fi, perm[k] + 1)

\* a "te" filter that met, at one frequency, a mode of fraction one half
\* behind a mode of the other polarization and a mode without field before
\* the last position
C27_Witness ==
    \E n \in FilterCalls :
        LET before == calls[n].normalized
            frac == pol_fraction(before)
        IN  /\ calls[n].solver.mode_spec.filter_pol = "te"
            /\ \E fi \in DOMAIN before.f, half, other, nan \in DOMAIN before.mode_index :
                  /\ other < half /\ nan < half
                  /\ IsNaN(frac[<<fi, nan>>])
                  /\ ~IsNaN(frac[<<fi, half>>])
                  /\ 2 * frac[<<fi, half>>].te = frac[<<fi, half>>].total
                  /\ BelowHalf(frac[<<fi, other>>])
                  /\ calls[n].filtered.n_complex[<<fi, 1>>] # before.n_complex[<<fi, 1>>]

\* first reads of data_raw of a solver with a group index step
GroupIndexCalls == {n \in SolveCalls : calls[n].solver.mode_spec.group_index_step > 0}

\* C28: with group_index_step = s > 0 and N frequencies the solve runs at
\* f_i * (1 - s), f_i, f_i * (1 + s) in that order for each i; the data
\* returned holds, for n_complex, every field component, both grid
\* corrections, eps_spec and the frequencies of the monitor, the entries at
\* positions 1, 4, 7, ... of the solve, which are the N frequencies in their
\* order; the group index at f_i is computed from the three entries of f_i
C28_GroupIndexKeepsRequestedFrequencies ==
    \A n \in GroupIndexCalls :
        LET solver == calls[n].solver
            s == solver.mode_spec.group_index_step
            N == Len(solver.freqs)
            raw == calls[n].raw
            out == calls[n].out
            modes == DOMAIN out.mode_index
            n_eff(fi, m) == raw.n_complex[<<fi, m>>][1]
        IN  /\ Len(raw.f) = 3 * N
            /\ calls[n].yee.f = raw.f
            /\ \A i \in 1..N :
                  /\ raw.f[3 * i - 2] * 100 = solver.freqs[i] * (100 - s)
                  /\ raw.f[3 * i - 1] = solver.freqs[i]
                  /\ raw.f[3 * i] * 100 = solver.freqs[i] * (100 + s)
            /\ out.f = solver.freqs
            /\ out.monitor.freqs = solver.freqs
            /\ Len(out.eps_spec) = N
            /\ DOMAIN out.slices = (1..N) \X modes
            /\ DOMAIN out.n_complex = (1..N) \X modes
            /\ DOMAIN out.grid_primal_correction = (1..N) \X modes
            /\ DOMAIN out.grid_dual_correction = (1..N) \X modes
            /\ DOMAIN out.n_group_raw = (1..N) \X modes
            /\ \A i \in 1..N :
                  /\ out.eps_spec[i] = raw.eps_spec[3 * i - 1]
                  /\ \A m \in modes :
                        /\ ModeEntry(out, i, m) = ModeEntry(raw, 3 * i - 1, m)
                        /\ 2 * s * (out.n_group_raw[<<i, m>>] - n_eff(3 * i - 1, m))
                              = 100 * (n_eff(3 * i, m) - n_eff(3 * i - 2, m))

\* a solve for two frequencies given in descending order, whose entries
\* for one frequency differ from each other and from those of the other
C28_Witness ==
    \E n \in GroupIndexCalls :
        /\ Len(calls[n].solver.freqs) = 2
        /\ calls[n].solver.freqs[1] > calls[n].solver.freqs[2]
        /\ calls[n].raw.n_complex[<<1, 1>>] # calls[n].raw.n_complex[<<2, 1>>]
        /\ calls[n].raw.n_complex[<<2, 1>>] # calls[n].raw.n_complex[<<3, 1>>]
        /\ calls[n].raw.n_complex[<<2, 1>>] # calls[n].raw.n_complex[<<5, 1>>]
        /\ calls[n].out.n_complex[<<2, 1>>] = calls[n].raw.n_complex[<<5, 1>>]

\* reads of flux and of pol_fraction
FluxReads == {n \in CallIdx : calls[n].op = "flux"}

PolFractionReads == {n \in CallIdx : calls[n].op = "pol_fraction"}

\* two fractions are the same number, or both NaN
SameFraction(a, b) ==
    IF IsNaN(a) \/ IsNaN(b) THEN IsNaN(a) /\ IsNaN(b)
    ELSE a.te * b.total = b.te * a.total

\* C29 as stated: what is read from the data that data_raw returned belongs
\* to the field values the data holds: flux has magnitude 1 for every
\* frequency and mode (of nonzero power), and pol_fraction is that of the
\* modes in the order they have in the data
C29_DerivedQuantitiesFollowFields ==
    /\ \A n \in FluxReads :
          \A fm \in DOMAIN calls[n].ret :
              heap[calls[n].self].scaling2[fm] # 0 =>
                  Abs(calls[n].ret[fm][1]) = calls[n].ret[fm][2]
    /\ \A n \in PolFractionReads :
          LET now == pol_fraction(heap[calls[n].self])
          IN  \A fm \in DOMAIN calls[n].ret : SameFraction(calls[n].ret[fm], now[fm])


(***************************************************************************)
(* time_reversed_copy.  Frequency-domain data keeps its samples by         *)
(* (frequency, mode) slice with real and imaginary parts; time-domain data *)
(* keeps real samples by position along t.  A mode monitor that does not   *)
(* store fields has store_fields_direction None and its data no field      *)
(* components.                                                             *)
(***************************************************************************)
\* the field components with the electric field negated
NegatedE(fields) ==
    [c \in DOMAIN fields |->
        IF IsE(c)
        THEN [fields[c] EXCEPT !.values = [idx \in DOMAIN fields[c].values |->
                                              0 - fields[c].values[idx]]]
        ELSE fields[c]]

\* np.conj(field) for the components of E, -np.conj(field) for those of H,
\* in new arrays
conj_reversed(slices) ==
    Materialize([fm \in DOMAIN slices |->
        [fields |-> ComputedFields(ReversedH(slices[fm].fields)),
         fields_im |-> ComputedFields(NegatedE(slices[fm].fields_im))]])

\* ElectromagneticFieldData.time_reversed_copy
time_reversed_copy_field(self) == [self EXCEPT !.slices = conj_reversed(self.slices)]

\* the positions of coords in the order sortby puts them: ascending, equal
\* coordinates in their order
sortby_order(coords) ==
    [k \in DOMAIN coords |->
        CHOOSE p \in DOMAIN coords :
            Cardinality({q \in DOMAIN coords :
                coords[q] < coords[p] \/ (coords[q] = coords[p] /\ q < p)}) = k - 1]

\* FieldTimeData.time_reversed_copy: -field for the components of H; then
\* assign_coords(t = field.t[::-1]).sortby("t")
time_reversed_copy_time(self) ==
    LET n == Len(self.t)
        assigned == [k \in 1..n |-> self.t[n + 1 - k]]
        order == sortby_order(assigned)
    IN  [self EXCEPT
            !.t = [k \in 1..n |-> assigned[order[k]]],
            !.slices = Materialize([k \in 1..n |->
                          [fields |-> ComputedFields(ReversedH(self.slices[order[k]].fields))]])]

\* new_dir = "+" if mnt.store_fields_direction == "-" else "-"
new_dir(mnt) == IF mnt.store_fields_direction = "-" THEN "+" ELSE "-"

\* ModeData.time_reversed_copy
time_reversed_copy_mode(self) ==
    [self EXCEPT !.slices = conj_reversed(self.slices),
                 !.monitor = [self.monitor EXCEPT
                                 !.store_fields_direction = new_dir(self.monitor)]]

\* ModeSolverData.time_reversed_copy
time_reversed_copy_mode_solver(self) ==
    [self EXCEPT !.slices = conj_reversed(self.slices),
                 !.monitor = [self.monitor EXCEPT
                                 !.direction = new_dir(self.monitor),
                                 !.store_fields_direction = new_dir(self.monitor)]]

\* data.time_reversed_copy, by the class of the data
time_reversed_copy(self) ==
    CASE self.type = "FieldTimeData" -> time_reversed_copy_time(self)
      [] self.type = "ModeData" -> time_reversed_copy_mode(self)
      [] self.type = "ModeSolverData" -> time_reversed_copy_mode_solver(self)
      [] OTHER -> time_reversed_copy_field(self)

\* frequency-domain data of a planar monitor normal to z
ReversibleData(type, comps, direction, seed) ==
    LET d == ModalDataInit(type, comps, 3, FALSE, FALSE, <<0, 0, 0>>, <<1, 1>>, <<1, 2>>, 2,
                           direction, seed)
    IN  With(d, LAMBDA data :
            [data EXCEPT
                !.slices = Materialize([fm \in DOMAIN data.slices |->
                    [fields |-> ComputedFields(data.slices[fm].fields),
                     fields_im |-> ComputedFields(data.slices[fm].fields_im)]]),
                !.monitor =
                    IF type = "ModeSolverData" THEN [direction |-> direction] @@ data.monitor
                    ELSE IF type = "ModeData" THEN data.monitor
                    ELSE [b \in DOMAIN data.monitor \ {"store_fields_direction"} |->
                             data.monitor[b]]])

\* time-domain data of the same monitor with samples at the times t
ReversibleTimeData(t, seed) ==
    LET d == ModalDataInit("FieldTimeData", EMComponents, 3, FALSE, FALSE, <<0, 0, 0>>,
                           <<1, 1>>, t, 1, "+", seed)
    IN  With(d, LAMBDA data :
            [kind |-> "time", type |-> "FieldTimeData",
             monitor |-> [b \in DOMAIN data.monitor \ {"store_fields_direction"} |->
                            data.monitor[b]],
             symmetry |-> data.symmetry, symmetry_center |-> data.symmetry_center,
             grid_expanded |-> data.grid_expanded,
             t |-> t,
             slices |-> Materialize([k \in DOMAIN t |->
                          [fields |-> ComputedFields(data.slices[<<k, 1>>].fields)]])])

\* the times of time-domain data: ascending
TimeCoords == {<<5>>, <<0, 2>>, <<0, 1, 3>>}

ReversibleObjects ==
    {ReversibleData("FieldData", comps, "+", seed) :
        comps \in {EMComponents, {"Ex", "Hy"}}, seed \in {0, 1}}
    \cup {ReversibleTimeData(t, 1) : t \in TimeCoords}
    \cup {ReversibleData("ModeData", InPlaneComponents(3), direction, 1) :
            direction \in {"+", "-"}}
    \cup {ReversibleData("ModeData", {}, "None", 1)}
    \cup {ReversibleData("ModeSolverData", EMComponents, direction, 1) :
            direction \in {"+", "-"}}

InitRev ==
    /\ \E d \in ReversibleObjects : heap = [i \in ObjIds |-> IF i = 1 THEN d ELSE NoObj]
    /\ calls = << >>

\* data.time_reversed_copy
TimeReversedCopy(id) ==
    /\ Len(calls) < MaxCalls
    /\ id \in Live
    /\ calls' = With(time_reversed_copy(heap[id]), LAMBDA r :
                     Append(calls, [op |-> "time_reversed_copy", self |-> id, pre |-> heap[id],
                                    ret |-> NewId, out |-> r]))
    /\ heap' = [heap EXCEPT ![NewId] = calls'[Len(calls')].out]

NextRev == \E id \in ObjIds : TimeReversedCopy(id)

SpecRev == InitRev /\ [][NextRev]_vars

(***************************************************************************)
(* Properties of time_reversed_copy.                                       *)
(***************************************************************************)
\* the complex sample of a component of a slice
SampleOf(slice, c, idx) == <<slice.fields[c].values[idx], slice.fields_im[c].values[idx]>>

\* what the call made of frequency-domain samples: conj(E) and -conj(H)
ConjugatedAndReversed(pre, out) ==
    /\ DOMAIN out.slices = DOMAIN pre.slices
    /\ \A fm \in DOMAIN pre.slices :
          /\ DOMAIN out.slices[fm].fields = DOMAIN pre.slices[fm].fields
          /\ \A c \in DOMAIN pre.slices[fm].fields :
                \A idx \in DOMAIN pre.slices[fm].fields[c].values :
                    SampleOf(out.slices[fm], c, idx) =
                        IF IsH(c)
                        THEN CSub(<<0, 0>>, CConj(SampleOf(pre.slices[fm], c, idx)))
                        ELSE CConj(SampleOf(pre.slices[fm], c, idx))

\* what the call made of time-domain samples: the sample at position k is
\* the sample that was at the mirrored position, negated for H; the times
\* are the same
NegatedAndMirrored(pre, out) ==
    /\ out.t = pre.t
    /\ DOMAIN out.slices = DOMAIN pre.slices
    /\ \A k \in DOMAIN pre.slices :
          \A c \in DOMAIN pre.slices[k].fields :
              \A idx \in DOMAIN pre.slices[k].fields[c].values :
                  out.slices[k].fields[c].values[idx] =
                      (IF IsH(c) THEN 0 - 1 ELSE 1)
                        * pre.slices[Len(pre.t) + 1 - k].fields[c].values[idx]

\* the stored direction is the opposite one
DirectionFlipped(pre, out) ==
    \/ pre.monitor.store_fields_direction = "+" /\ out.monitor.store_fields_direction = "-"
    \/ pre.monitor.store_fields_direction = "-" /\ out.monitor.store_fields_direction = "+"

\* C30 as stated: time_reversed_copy applied to the copy it returned gives
\* data equal to the original; FieldData gets conj(E) and -conj(H), ModeData
\* and ModeSolverData also the opposite stored direction, FieldTimeData -H
\* and the samples mirrored along t at the same times; the receiver is left
\* as it was
C30_TimeReversalIsInvolution ==
    \A n \in CallIdx :
        LET pre == calls[n].pre
            out == calls[n].out
        IN  /\ heap[calls[n].self] = pre
            /\ heap[calls[n].ret] = out
            /\ pre.type = "FieldTimeData" => NegatedAndMirrored(pre, out)
            /\ pre.type # "FieldTimeData" => ConjugatedAndReversed(pre, out)
            /\ pre.type \in {"ModeData", "ModeSolverData"} => DirectionFlipped(pre, out)
            /\ \A m \in 1..(n - 1) : calls[n].self = calls[m].ret => out = calls[m].pre
====
